---- MODULE Spec2Model ----
(***************************************************************************)
(* Cafe POS back end: order intake and reconciliation (POST /orders),      *)
(* order status updates, menu item updates and deletes, and the daily      *)
(* sales analytics aggregation, over the two relational tables menu_items  *)
(* and orders.                                                             *)
(*                                                                         *)
(* Money is counted in integer cents: both tables declare NUMERIC(10,2),   *)
(* so every stored price and total is a whole number of cents.  Time is    *)
(* counted in ticks since the epoch (UTC), TicksPerDay ticks to a day.     *)
(***************************************************************************)
EXTENDS Integers, Sequences, FiniteSets, TLC

(* ------------------------------ bounds -------------------------------- *)

\* most orders the orders table holds in a checked behaviour
MaxOrders == 2

\* last tick the clock reaches
MaxTime == 3

\* ticks in one calendar day
TicksPerDay == 2

\* most ids the store generates for new categories and menu items
MaxGenerated == 2

(* ------------------------- program constants -------------------------- *)

\* 0.01 currency units, in cents
Tolerance == 1

PaymentMethods == {"cash", "debit", "ewallet"}

Statuses == {"pending", "completed", "cancelled"}

(* ------------------------------ inputs -------------------------------- *)

\* identifiers that pass isUUID(); a catalog row may or may not exist for each
ItemIds == {"A", "B"}

\* an identifier that fails isUUID()
MalformedId == "not-a-uuid"

Prices == {1, 2}

\* further identifiers that pass isUUID(): the rest of a menu of eleven items
MoreItemIds == {"C", "D", "E", "F", "G", "H", "I", "J", "K"}

\* isUUID()
IsUUID(id) == id \in ItemIds \cup MoreItemIds

VARIABLES
    menu_items,   \* table menu_items: id -> row, for the ids that have a row
    orders,       \* table orders, in insertion order; the row's id is its index
    now,          \* the store's clock, NOW()
    tz,           \* the server's local time minus UTC, in ticks
    inflight,     \* per connection: its POST /orders request, the handler's
                  \* position and locals, and the response once sent
    resp,         \* the response the last step sent for any other request,
                  \* NoResponse if it sent none
    categories,   \* table categories: id -> row
    generated,    \* how many ids gen_random_uuid() has produced for new rows
    client        \* the browser's store: its category list

\* the variables the order and analytics handlers never touch
catalogVars == <<categories, generated, client>>

vars == <<menu_items, orders, now, tz, inflight, resp, categories, generated, client>>

(* ------------------------------ helpers ------------------------------- *)

Range(s) == {s[i] : i \in DOMAIN s}

Abs(x) == IF x < 0 THEN -x ELSE x

Idle == [pc |-> "idle"]

NoResponse == [op |-> "none", status |-> 0, code |-> "none"]

ErrorResponse(op, status, code) == [op |-> op, status |-> status, code |-> code]

(* ------------------- POST /orders: pure parts ------------------------- *)

\* the chain with isInt({min: 0}) on the quantity
ValidOrderBody_ZeroQuantity(req) ==
    /\ Len(req.items) >= 1
    /\ \A i \in 1..Len(req.items) : IsUUID(req.items[i].itemId)
    /\ \A i \in 1..Len(req.items) : req.items[i].quantity >= 0
    /\ req.total >= 0
    /\ req.paymentMethod \in PaymentMethods

\* the chain without the paymentMethod validator
ValidOrderBody_NoPaymentCheck(req) ==
    /\ Len(req.items) >= 1
    /\ \A i \in 1..Len(req.items) : IsUUID(req.items[i].itemId)
    /\ \A i \in 1..Len(req.items) : req.items[i].quantity >= 1
    /\ req.total >= 0

\* express-validator chain of POST /orders
ValidOrderBody(req) ==
    /\ Len(req.items) >= 1
    /\ \A i \in 1..Len(req.items) : IsUUID(req.items[i].itemId)
    /\ \A i \in 1..Len(req.items) : req.items[i].quantity >= 1
    /\ req.total >= 0
    /\ req.paymentMethod \in PaymentMethods

\* authenticateToken: only the consolidated server (app.ts) mounts it
Authenticated(req) == req.impl = "app" => req.auth = "valid"

AuthFailureStatus(req) == IF req.auth = "missing" THEN 401 ELSE 403

\* the JSON authenticateToken sends: { success: false, message }
AuthFailureBody(req) ==
    [success |-> FALSE,
     message |-> IF req.auth = "missing" THEN "Access token required"
                 ELSE "Invalid or expired token"]

\* { success: false, error: { message, code } }, the JSON of the validation
\* middleware and of the handlers' own error answers
ErrorBody(message, code) ==
    [success |-> FALSE, error |-> [message |-> message, code |-> code]]

\* the 404 handler's JSON { success: false, error: 'API not found' }: error
\* is a string, written here as a value with a text and no message or code
ApiNotFoundBody == [success |-> FALSE, error |-> [text |-> "API not found"]]

\* the message each error answer of POST /orders carries
OrderErrorMessage(code) ==
    CASE code = "VALIDATION_ERROR" -> "Validation failed"
      [] code = "INVALID_ITEMS" -> "One or more menu items not found"
      [] code = "TOTAL_MISMATCH" -> "Total mismatch"
      [] OTHER -> "Failed to create order"

\* items.map(item => item.itemId)
ItemIdsOf(items) == [i \in 1..Len(items) |-> items[i].itemId]

\* a lookup that answers every found item at price 0.01
ExistingItems_UnitPrices(catalog, itemIds) ==
    [id \in (DOMAIN catalog) \cap Range(itemIds) |-> [price |-> 1]]

\* select id, name, price from menu_items where id in (itemIds):
\* one row for each catalog row whose id occurs in the list, with the column
\* the handler goes on to read
ExistingItems(catalog, itemIds) ==
    [id \in (DOMAIN catalog) \cap Range(itemIds) |-> [price |-> catalog[id].price]]

\* a check that rejects only when the lookup found nothing
ItemsMissing_NoneFound(existingItems, itemIds) ==
    Cardinality(DOMAIN existingItems) = 0

\* !existingItems || existingItems.length !== itemIds.length
ItemsMissing(existingItems, itemIds) ==
    Cardinality(DOMAIN existingItems) # Len(itemIds)

\* the loop that adds menuItem.price * orderItem.quantity for each found line
RECURSIVE CalculatedTotal(_, _)
CalculatedTotal(items, existingItems) ==
    IF items = <<>> THEN 0
    ELSE LET orderItem == Head(items)
             line == IF orderItem.itemId \in DOMAIN existingItems
                     THEN existingItems[orderItem.itemId].price * orderItem.quantity
                     ELSE 0
         IN  line + CalculatedTotal(Tail(items), existingItems)

\* Math.abs(calculatedTotal - total) > 0.01
TotalMismatch(calculatedTotal, total) == Abs(calculatedTotal - total) > Tolerance

\* the row with the total the client sent in place of the recomputed one
NewOrderRow_ClientTotal(id, req, calculatedTotal, t) ==
    [id |-> id,
     items |-> [i \in 1..Len(req.items) |->
                   [itemId |-> req.items[i].itemId, quantity |-> req.items[i].quantity]],
     total |-> req.total,
     payment_method |-> req.paymentMethod,
     status |-> "pending",
     created_at |-> t,
     updated_at |-> t]

\* the row the insert sends, completed by the table's defaults (generated id,
\* status 'pending', created_at and updated_at NOW())
NewOrderRow(id, req, calculatedTotal, t) ==
    [id |-> id,
     items |-> [i \in 1..Len(req.items) |->
                   [itemId |-> req.items[i].itemId, quantity |-> req.items[i].quantity]],
     total |-> calculatedTotal,
     payment_method |-> req.paymentMethod,
     status |-> "pending",
     created_at |-> t,
     updated_at |-> t]

\* CHECK constraints of table orders
OrderRowAccepted(row) ==
    /\ row.total >= 0
    /\ row.payment_method \in PaymentMethods
    /\ row.status \in Statuses

\* res.status(...).json(...) of POST /orders; storeError names the store call
\* whose error the handler caught
OrderResponse(status, code, storeError) ==
    [status |-> status, code |-> code, storeError |-> storeError, orderId |-> 0,
     json |-> ErrorBody(OrderErrorMessage(code), code)]

\* 201 with the saved order
OrderCreatedResponse(row) ==
    [status |-> 201, code |-> "none", storeError |-> "none", orderId |-> row.id,
     json |-> [success |-> TRUE]]

\* the answer of authenticateToken when it does not call next()
AuthFailureResponse(req) ==
    [status |-> AuthFailureStatus(req), code |-> "none", storeError |-> "none",
     orderId |-> 0, json |-> AuthFailureBody(req)]

(* ------------------- POST /orders: handler steps ---------------------- *)

Busy(c) == inflight[c].pc \in {"received", "lookedUp"}

InflightCount == Cardinality({c \in DOMAIN inflight : Busy(c)})

\* storeCalls: the store calls the handler made for the request, in order
Responded(req, existingItems, response, storeCalls) ==
    [pc |-> "responded", req |-> req, existingItems |-> existingItems,
     resp |-> response, storeCalls |-> storeCalls]

NoRows == [id \in {} |-> [price |-> 0]]

\* A request reaches the server on connection c; room is the number of
\* orders the checked behaviour lets the table grow to.
OrderRequestArrives(c, req, room) ==
    /\ inflight[c].pc = "idle"
    /\ Len(orders) + InflightCount < room
    /\ inflight' = [inflight EXCEPT ![c] = [pc |-> "received", req |-> req]]
    /\ resp' = NoResponse
    /\ UNCHANGED <<menu_items, orders, now, tz, catalogVars>>

\* The middleware chain and the handler up to the answer of the catalog lookup.
CreateOrderLookup(c, storeFails) ==
    /\ inflight[c].pc = "received"
    /\ LET req == inflight[c].req
           existingItems == ExistingItems(menu_items, ItemIdsOf(req.items))
       IN  inflight' = [inflight EXCEPT ![c] =
               IF ~Authenticated(req)
               THEN Responded(req, NoRows, AuthFailureResponse(req), <<>>)
               ELSE IF ~ValidOrderBody(req)
               THEN Responded(req, NoRows, OrderResponse(400, "VALIDATION_ERROR", "none"), <<>>)
               ELSE IF storeFails
               THEN Responded(req, NoRows, OrderResponse(500, "CREATE_ERROR", "select"),
                              <<"select">>)
               ELSE [pc |-> "lookedUp", req |-> req, existingItems |-> existingItems]]
    /\ resp' = NoResponse
    /\ UNCHANGED <<menu_items, orders, now, tz, catalogVars>>

\* A handler that sends the insert a second time when the first one errors.
CreateOrderInsert_RetriesInsert(c, storeFails) ==
    /\ inflight[c].pc = "lookedUp"
    /\ LET req == inflight[c].req
           existingItems == inflight[c].existingItems
           calculatedTotal == CalculatedTotal(req.items, existingItems)
           row == NewOrderRow(Len(orders) + 1, req, calculatedTotal, now)
       IN  IF ItemsMissing(existingItems, ItemIdsOf(req.items))
           THEN /\ inflight' = [inflight EXCEPT ![c] =
                       Responded(req, existingItems, OrderResponse(400, "INVALID_ITEMS", "none"),
                                 <<"select">>)]
                /\ UNCHANGED orders
           ELSE IF TotalMismatch(calculatedTotal, req.total)
           THEN /\ inflight' = [inflight EXCEPT ![c] =
                       Responded(req, existingItems, OrderResponse(400, "TOTAL_MISMATCH", "none"),
                                 <<"select">>)]
                /\ UNCHANGED orders
           ELSE IF ~OrderRowAccepted(row)
           THEN /\ inflight' = [inflight EXCEPT ![c] =
                       Responded(req, existingItems, OrderResponse(500, "CREATE_ERROR", "insert"),
                                 <<"select", "insert">>)]
                /\ UNCHANGED orders
           ELSE /\ orders' = Append(orders, row)
                /\ inflight' = [inflight EXCEPT ![c] =
                       Responded(req, existingItems, OrderCreatedResponse(row),
                                 IF storeFails THEN <<"select", "insert", "insert">>
                                 ELSE <<"select", "insert">>)]
    /\ resp' = NoResponse
    /\ UNCHANGED <<menu_items, now, tz, catalogVars>>

\* The handler from the answer of the catalog lookup to its response.
CreateOrderInsert(c, storeFails) ==
    /\ inflight[c].pc = "lookedUp"
    /\ LET req == inflight[c].req
           existingItems == inflight[c].existingItems
           calculatedTotal == CalculatedTotal(req.items, existingItems)
           row == NewOrderRow(Len(orders) + 1, req, calculatedTotal, now)
       IN  IF ItemsMissing(existingItems, ItemIdsOf(req.items))
           THEN /\ inflight' = [inflight EXCEPT ![c] =
                       Responded(req, existingItems, OrderResponse(400, "INVALID_ITEMS", "none"),
                                 <<"select">>)]
                /\ UNCHANGED orders
           ELSE IF TotalMismatch(calculatedTotal, req.total)
           THEN /\ inflight' = [inflight EXCEPT ![c] =
                       Responded(req, existingItems, OrderResponse(400, "TOTAL_MISMATCH", "none"),
                                 <<"select">>)]
                /\ UNCHANGED orders
           ELSE IF storeFails \/ ~OrderRowAccepted(row)
           THEN /\ inflight' = [inflight EXCEPT ![c] =
                       Responded(req, existingItems, OrderResponse(500, "CREATE_ERROR", "insert"),
                                 <<"select", "insert">>)]
                /\ UNCHANGED orders
           ELSE /\ orders' = Append(orders, row)
                /\ inflight' = [inflight EXCEPT ![c] =
                       Responded(req, existingItems, OrderCreatedResponse(row),
                                 <<"select", "insert">>)]
    /\ resp' = NoResponse
    /\ UNCHANGED <<menu_items, now, tz, catalogVars>>

\* The client has read the response; the connection takes the next request.
ResponseDelivered(c) ==
    /\ inflight[c].pc = "responded"
    /\ inflight' = [inflight EXCEPT ![c] = Idle]
    /\ resp' = NoResponse
    /\ UNCHANGED <<menu_items, orders, now, tz, catalogVars>>

(* --------------------- PUT /orders/:id/status ------------------------- *)

\* an update that rewrites both timestamps
StatusUpdatedRow_ResetsCreated(row, status, t) ==
    [row EXCEPT !.status = status, !.created_at = t, !.updated_at = t]

\* update orders set status = ... where id = ...; the trigger bumps updated_at
StatusUpdatedRow(row, status, t) ==
    [row EXCEPT !.status = status, !.updated_at = t]

\* id: an order id that passes isUUID(); status: the body's status
UpdateOrderStatus(id, status) ==
    /\ IF status \notin Statuses
       THEN /\ resp' = ErrorResponse("updateStatus", 400, "VALIDATION_ERROR")
            /\ UNCHANGED orders
       ELSE IF id \notin 1..Len(orders)
       THEN /\ resp' = ErrorResponse("updateStatus", 404, "NOT_FOUND")
            /\ UNCHANGED orders
       ELSE /\ orders' = [orders EXCEPT ![id] = StatusUpdatedRow(orders[id], status, now)]
            /\ resp' = [op |-> "updateStatus", status |-> 200, code |-> "none"]
    /\ UNCHANGED <<menu_items, now, tz, inflight, catalogVars>>

(* ------------------------ GET /orders/:id ----------------------------- *)

\* an order id in the request path that is not a UUID
MalformedOrderId == 0

\* param('id').isUUID()
ValidOrderId(id) == id # MalformedOrderId

\* a select that answers the newest row whatever the id
SelectOrder_Newest(rows, id) == rows[Len(rows)]

\* select * from orders where id = ... .single()
SelectOrder(rows, id) == rows[id]

\* The handler reads and answers; it writes nothing. The response record
\* keeps the id the request named.
GetOrder(id, storeFails) ==
    /\ resp' = IF ~ValidOrderId(id)
               THEN [op |-> "getOrder", status |-> 400, code |-> "VALIDATION_ERROR",
                     id |-> id]
               ELSE IF storeFails
               THEN [op |-> "getOrder", status |-> 500, code |-> "FETCH_ERROR", id |-> id]
               ELSE IF id \notin 1..Len(orders)
               THEN [op |-> "getOrder", status |-> 404, code |-> "NOT_FOUND", id |-> id]
               ELSE [op |-> "getOrder", status |-> 200, code |-> "none", id |-> id,
                     data |-> SelectOrder(orders, id)]
    /\ UNCHANGED <<menu_items, orders, now, tz, inflight, catalogVars>>

(* --------------------------- GET /orders ------------------------------ *)

\* a query parameter the request does not carry
Undefined == "undefined"

\* limit = '20'
DefaultLimit == "20"

\* page = '1'
DefaultPage == "1"

\* isInt({ min: 1, max: 100 })
MaxLimit == 100

\* parseInt, on the numerals the requests carry
ParseInt(str) ==
    CASE str = "0" -> 0
      [] str = "1" -> 1
      [] str = "2" -> 2
      [] str = "3" -> 3
      [] str = "20" -> 20

\* the numeral of a page number
ToNumeral(n) ==
    CASE n = 0 -> "0"
      [] n = 1 -> "1"
      [] n = 2 -> "2"
      [] n = 3 -> "3"

\* the validators of limit, page and status, each optional
ValidListQuery(q) ==
    /\ q.limit # Undefined => (ParseInt(q.limit) >= 1 /\ ParseInt(q.limit) <= MaxLimit)
    /\ q.page # Undefined => ParseInt(q.page) >= 1
    /\ q.status # Undefined => q.status \in Statuses

\* the positions of the rows that pass .eq('status', status), every row when
\* no status was given
MatchingOrders(table, status) ==
    {k \in 1..Len(table) : status = Undefined \/ table[k].status = status}

\* .order('created_at', { ascending: false }): the orderings of the rows ks
\* the store may answer, newest first; the order of rows created at the
\* same instant is the store's choice, made anew for every query
NewestFirst(table, ks) ==
    {list \in [1..Cardinality(ks) -> ks] :
        /\ \A i, j \in 1..Cardinality(ks) : i # j => list[i] # list[j]
        /\ \A i \in 1..(Cardinality(ks) - 1) :
              table[list[i]].created_at >= table[list[i + 1]].created_at}

\* .range(from, to): the rows at the positions from..to, counted from 0
RowsInRange(list, from, to) ==
    [i \in 1..(IF to < Len(list) THEN to - from + 1
               ELSE IF from < Len(list) THEN Len(list) - from ELSE 0)
        |-> list[from + i]]

\* Math.ceil(total / limitNum)
PageCount(total, limitNum) == (total + limitNum - 1) \div limitNum

\* the 200 answer for the ordering the store answered the query with
OrdersPage(table, q, list) ==
    LET limitNum == ParseInt(IF q.limit = Undefined THEN DefaultLimit ELSE q.limit)
        pageNum == ParseInt(IF q.page = Undefined THEN DefaultPage ELSE q.page)
        skip == (pageNum - 1) * limitNum
        total == Len(list)
        positions == RowsInRange(list, skip, skip + limitNum - 1)
    IN  [data |-> [i \in 1..Len(positions) |-> table[positions[i]]],
         count |-> total,
         pagination |-> [page |-> pageNum, limit |-> limitNum, total |-> total,
                         pages |-> PageCount(total, limitNum)]]

\* q: [impl, auth, limit, page, status]; storeFails: the query errors
GetOrders(q, storeFails) ==
    /\ \E list \in NewestFirst(orders, MatchingOrders(orders, q.status)) :
          resp' = IF ~Authenticated(q)
                  THEN [op |-> "getOrders", status |-> AuthFailureStatus(q),
                        code |-> "none", query |-> q]
                  ELSE IF ~ValidListQuery(q)
                  THEN [op |-> "getOrders", status |-> 400, code |-> "VALIDATION_ERROR",
                        query |-> q]
                  ELSE IF storeFails
                  THEN [op |-> "getOrders", status |-> 500, code |-> "FETCH_ERROR",
                        query |-> q]
                  ELSE [op |-> "getOrders", status |-> 200, code |-> "none",
                        query |-> q, body |-> OrdersPage(orders, q, list)]
    /\ UNCHANGED <<menu_items, orders, now, tz, inflight, catalogVars>>

(* ------------------- PUT /menu/:id, DELETE /menu/:id ------------------ *)

\* isFloat({min: 0.01}) on an optional price
ValidPriceUpdate(price) == price >= 1

\* update menu_items set price = ... where id = ...  (if (updates.price) ...)
MenuItemUpdatedRow(row, price) == [row EXCEPT !.price = price]

\* the response record keeps the id and the price the request named
UpdateMenuItem(id, price) ==
    /\ IF ~ValidPriceUpdate(price)
       THEN /\ resp' = [op |-> "updateMenuItem", status |-> 400,
                        code |-> "VALIDATION_ERROR", id |-> id, price |-> price]
            /\ UNCHANGED menu_items
       ELSE IF id \notin DOMAIN menu_items
       THEN /\ resp' = [op |-> "updateMenuItem", status |-> 404,
                        code |-> "NOT_FOUND", id |-> id, price |-> price]
            /\ UNCHANGED menu_items
       ELSE /\ menu_items' = [menu_items EXCEPT ![id] = MenuItemUpdatedRow(menu_items[id], price)]
            /\ resp' = [op |-> "updateMenuItem", status |-> 200, code |-> "none",
                        id |-> id, price |-> price]
    /\ UNCHANGED <<orders, now, tz, inflight, catalogVars>>

\* delete from menu_items where id = ...
MenuItemsWithout(catalog, id) == [i \in (DOMAIN catalog) \ {id} |-> catalog[i]]

DeleteMenuItem(id) ==
    /\ IF id \notin DOMAIN menu_items
       THEN /\ resp' = ErrorResponse("deleteMenuItem", 404, "NOT_FOUND")
            /\ UNCHANGED menu_items
       ELSE /\ menu_items' = MenuItemsWithout(menu_items, id)
            /\ resp' = [op |-> "deleteMenuItem", status |-> 200, code |-> "none"]
    /\ UNCHANGED <<orders, now, tz, inflight, catalogVars>>

(* ----------------------------- POST /menu ----------------------------- *)

\* String.prototype.toLowerCase, on the strings the requests carry
ToLowerCase(str) ==
    CASE str = "Coffee" -> "coffee"
      [] str = "Tea" -> "tea"
      [] str = "All" -> "all"
      [] str = "Whipped Coffee" -> "whipped coffee"
      [] str = "Iced Coffee" -> "iced coffee"
      [] str = "Mocha" -> "mocha"
      [] OTHER -> str

\* ids gen_random_uuid() gives new rows, in the order it produces them
GeneratedItemIds == <<"C", "D", "E", "F", "G", "H">>

GeneratedCategoryIds == <<"id-1", "id-2", "id-3", "id-4", "id-5", "id-6">>

\* a chain that lets a price of 0 through
ValidNewMenuItem_ZeroPrice(table, body) ==
    /\ body.name \notin {"", "M"}
    /\ body.price >= 0
    /\ body.category # ""
    /\ body.category \in DOMAIN table

\* express-validator chain of POST /menu: the trimmed name has 2 to 100
\* characters, price is at least 0.01, category is the id of a categories row
ValidNewMenuItem(table, body) ==
    /\ body.name \notin {"", "M"}
    /\ body.price >= 1
    /\ body.category # ""
    /\ body.category \in DOMAIN table

\* select id from menu_items where name ilike $name limit 1
ItemsNamedLike(catalog, name) ==
    {id \in DOMAIN catalog : ToLowerCase(catalog[id].name) = ToLowerCase(name)}

\* the row the insert sends
NewMenuItemRow(body) ==
    [price |-> body.price, name |-> body.name, category |-> body.category]

\* CHECK (price > 0) of table menu_items
MenuItemRowAccepted(row) == row.price > 0

\* body: [name, price, category]; the response record keeps the body
CreateMenuItem(body) ==
    /\ generated < MaxGenerated
    /\ IF ~ValidNewMenuItem(categories, body)
       THEN /\ resp' = [op |-> "createMenuItem", status |-> 400,
                        code |-> "VALIDATION_ERROR", body |-> body]
            /\ UNCHANGED <<menu_items, generated>>
       ELSE IF ItemsNamedLike(menu_items, body.name) # {}
       THEN /\ resp' = [op |-> "createMenuItem", status |-> 400,
                        code |-> "DUPLICATE_NAME", body |-> body]
            /\ UNCHANGED <<menu_items, generated>>
       ELSE IF ~MenuItemRowAccepted(NewMenuItemRow(body))
       THEN /\ resp' = [op |-> "createMenuItem", status |-> 500,
                        code |-> "CREATE_ERROR", body |-> body]
            /\ UNCHANGED <<menu_items, generated>>
       ELSE /\ menu_items' =
                   [id \in DOMAIN menu_items \cup {GeneratedItemIds[generated + 1]} |->
                       IF id \in DOMAIN menu_items THEN menu_items[id]
                       ELSE NewMenuItemRow(body)]
            /\ generated' = generated + 1
            /\ resp' = [op |-> "createMenuItem", status |-> 201, code |-> "none",
                        body |-> body]
    /\ UNCHANGED <<orders, now, tz, inflight, categories, client>>

\* PUT /menu/:id with a body that names only the category: the validator
\* wants the id of a categories row
UpdateMenuItemCategory(id, category) ==
    /\ IF category = "" \/ category \notin DOMAIN categories
       THEN /\ resp' = [op |-> "updateMenuItemCategory", status |-> 400,
                        code |-> "VALIDATION_ERROR", id |-> id]
            /\ UNCHANGED menu_items
       ELSE IF id \notin DOMAIN menu_items
       THEN /\ resp' = [op |-> "updateMenuItemCategory", status |-> 404,
                        code |-> "NOT_FOUND", id |-> id]
            /\ UNCHANGED menu_items
       ELSE /\ menu_items' = [menu_items EXCEPT ![id].category = category]
            /\ resp' = [op |-> "updateMenuItemCategory", status |-> 200,
                        code |-> "none", id |-> id]
    /\ UNCHANGED <<orders, now, tz, inflight, catalogVars>>

(* ---------------------------- categories ------------------------------ *)

\* isString().isLength({min: 1, max: 50})
ValidCategoryName(name) == name # ""

\* select id from categories where name = $name
CategoriesNamed(table, name) == {id \in DOMAIN table : table[id].name = name}

\* POST /categories
CreateCategory(name) ==
    /\ generated < MaxGenerated
    /\ IF ~ValidCategoryName(name)
       THEN /\ resp' = [op |-> "createCategory", status |-> 400,
                        code |-> "VALIDATION_ERROR", name |-> name]
            /\ UNCHANGED <<categories, generated>>
       ELSE IF CategoriesNamed(categories, name) # {}
       THEN /\ resp' = [op |-> "createCategory", status |-> 400,
                        code |-> "DUPLICATE_CATEGORY", name |-> name]
            /\ UNCHANGED <<categories, generated>>
       ELSE IF CategoriesNamed(categories, ToLowerCase(name)) # {}
       THEN \* the insert of name.toLowerCase() breaks unique_category_name
            /\ resp' = [op |-> "createCategory", status |-> 500,
                        code |-> "CREATE_ERROR", name |-> name]
            /\ UNCHANGED <<categories, generated>>
       ELSE /\ categories' =
                   [id \in DOMAIN categories \cup {GeneratedCategoryIds[generated + 1]} |->
                       IF id \in DOMAIN categories THEN categories[id]
                       ELSE [name |-> ToLowerCase(name)]]
            /\ generated' = generated + 1
            /\ resp' = [op |-> "createCategory", status |-> 201, code |-> "none",
                        name |-> name]
    /\ UNCHANGED <<menu_items, orders, now, tz, inflight, client>>

\* PUT /categories/:id with a body that names the new name
UpdateCategory(id, name) ==
    /\ IF ~ValidCategoryName(name)
       THEN /\ resp' = [op |-> "updateCategory", status |-> 400,
                        code |-> "VALIDATION_ERROR", id |-> id, name |-> name]
            /\ UNCHANGED categories
       ELSE IF id \notin DOMAIN categories
       THEN /\ resp' = [op |-> "updateCategory", status |-> 404,
                        code |-> "NOT_FOUND", id |-> id, name |-> name]
            /\ UNCHANGED categories
       ELSE IF name # categories[id].name /\ CategoriesNamed(categories, name) \ {id} # {}
       THEN /\ resp' = [op |-> "updateCategory", status |-> 400,
                        code |-> "DUPLICATE_CATEGORY", id |-> id, name |-> name]
            /\ UNCHANGED categories
       ELSE IF CategoriesNamed(categories, ToLowerCase(name)) \ {id} # {}
       THEN \* the update to name.toLowerCase() breaks unique_category_name
            /\ resp' = [op |-> "updateCategory", status |-> 500,
                        code |-> "UPDATE_ERROR", id |-> id, name |-> name]
            /\ UNCHANGED categories
       ELSE /\ categories' = [categories EXCEPT ![id].name = ToLowerCase(name)]
            /\ resp' = [op |-> "updateCategory", status |-> 200, code |-> "none",
                        id |-> id, name |-> name]
    /\ UNCHANGED <<menu_items, orders, now, tz, inflight, generated, client>>

\* select id from menu_items where category = $name limit 1
ItemsInCategory(catalog, name) == {id \in DOMAIN catalog : catalog[id].category = name}

\* what DELETE /categories/:id answers, and the table it leaves
DeleteCategoryResult(table, catalog, id) ==
    IF id \notin DOMAIN table
    THEN [status |-> 404, code |-> "NOT_FOUND", table |-> table]
    ELSE IF ItemsInCategory(catalog, table[id].name) # {}
    THEN [status |-> 400, code |-> "CATEGORY_IN_USE", table |-> table]
    ELSE [status |-> 200, code |-> "none",
          table |-> [i \in (DOMAIN table) \ {id} |-> table[i]]]

\* DELETE /categories/:id
DeleteCategory(id) ==
    /\ LET result == DeleteCategoryResult(categories, menu_items, id)
       IN  /\ categories' = result.table
           /\ resp' = [op |-> "deleteCategory", status |-> result.status,
                       code |-> result.code, id |-> id]
    /\ UNCHANGED <<menu_items, orders, now, tz, inflight, generated, client>>

(* ---------------------- the browser's store --------------------------- *)

\* loadCategories: the list becomes what GET /categories returns
LoadCategories ==
    /\ client' = [client EXCEPT !.categories =
                     {[id |-> id, name |-> categories[id].name] : id \in DOMAIN categories}]
    /\ resp' = [op |-> "loadCategories", status |-> 200, code |-> "none"]
    /\ UNCHANGED <<menu_items, orders, now, tz, inflight, categories, generated>>

\* removeCategory(categoryId): nothing for the id 'all'; otherwise DELETE
\* /categories/:id, and the entry leaves the list when the server answered ok
RemoveCategory(categoryId) ==
    /\ IF categoryId = "all"
       THEN /\ resp' = [op |-> "removeCategory", status |-> 0, code |-> "none",
                        id |-> categoryId]
            /\ UNCHANGED <<categories, client>>
       ELSE LET result == DeleteCategoryResult(categories, menu_items, categoryId)
            IN  /\ categories' = result.table
                /\ client' = IF result.status = 200
                             THEN [client EXCEPT !.categories =
                                      {cat \in @ : cat.id # categoryId}]
                             ELSE client
                /\ resp' = [op |-> "removeCategory", status |-> result.status,
                            code |-> result.code, id |-> categoryId]
    /\ UNCHANGED <<menu_items, orders, now, tz, inflight, generated>>

(* ------------------- the browser's store: the cart -------------------- *)

\* null in a field of the store that holds a time
NullTime == -1

\* the product list after loadProducts read the seeded menu, an empty cart and
\* the initial flags
InitialStore(catalog) ==
    [products |-> [id \in DOMAIN catalog |-> [id |-> id, price |-> catalog[id].price]],
     cart |-> <<>>,
     isLoading |-> FALSE,
     error |-> "null",
     lastOrderCompletedAt |-> NullTime,
     paymentMethod |-> "cash",
     deleting |-> "none"]

\* state.cart.find((item) => item.product.id === product.id): its position,
\* 0 if there is none
IndexOfProduct(cart, productId) ==
    IF \E i \in 1..Len(cart) : cart[i].product.id = productId
    THEN CHOOSE i \in 1..Len(cart) :
            /\ cart[i].product.id = productId
            /\ \A j \in 1..(i - 1) : cart[j].product.id # productId
    ELSE 0

\* an addToCart that always appends a new entry
CartWithProduct_AlwaysAppends(cart, product, t) ==
    Append(cart, [id |-> t, product |-> product, quantity |-> 1])

\* the cart addToCart sets; a new entry's id is `cart_${Date.now()}`
CartWithProduct(cart, product, t) ==
    LET i == IndexOfProduct(cart, product.id)
    IN  IF i # 0
        THEN [j \in 1..Len(cart) |->
                 IF cart[j].id = cart[i].id
                 THEN [cart[j] EXCEPT !.quantity = @ + 1]
                 ELSE cart[j]]
        ELSE Append(cart, [id |-> t, product |-> product, quantity |-> 1])

\* state.cart.filter((item) => item.id !== cartItemId)
CartWithoutItem(cart, cartItemId) ==
    LET Keep(item) == item.id # cartItemId
    IN  SelectSeq(cart, Keep)

\* the cart updateCartItemQuantity sets
CartWithQuantity(cart, cartItemId, quantity) ==
    IF quantity <= 0
    THEN CartWithoutItem(cart, cartItemId)
    ELSE [j \in 1..Len(cart) |->
             IF cart[j].id = cartItemId
             THEN [cart[j] EXCEPT !.quantity = quantity]
             ELSE cart[j]]

\* state.cart.filter((item) => item.product.id !== productId)
CartWithoutProduct(cart, productId) ==
    LET Keep(item) == item.product.id # productId
    IN  SelectSeq(cart, Keep)

\* getCartTotal().total: the subtotal, tax being 0
RECURSIVE CartTotal(_)
CartTotal(cart) ==
    IF cart = <<>> THEN 0
    ELSE Head(cart).product.price * Head(cart).quantity + CartTotal(Tail(cart))

\* what a step of the store leaves in resp
StoreCall(op, argument, outcome) ==
    [op |-> op, status |-> 0, code |-> "none", argument |-> argument, outcome |-> outcome]

\* productId: a product of the list the page shows; most: the largest
\* quantity the checked behaviour lets an entry reach
AddToCart(productId, most) ==
    /\ productId \in DOMAIN client.products
    /\ \A i \in 1..Len(client.cart) : client.cart[i].quantity < most
    /\ client' = [client EXCEPT !.cart =
                     CartWithProduct(@, client.products[productId], now)]
    /\ resp' = StoreCall("addToCart", productId, "done")
    /\ UNCHANGED <<menu_items, orders, now, tz, inflight, categories, generated>>

RemoveFromCart(cartItemId) ==
    /\ client' = [client EXCEPT !.cart = CartWithoutItem(@, cartItemId)]
    /\ resp' = StoreCall("removeFromCart", cartItemId, "done")
    /\ UNCHANGED <<menu_items, orders, now, tz, inflight, categories, generated>>

UpdateCartItemQuantity(cartItemId, quantity) ==
    /\ client' = [client EXCEPT !.cart = CartWithQuantity(@, cartItemId, quantity)]
    /\ resp' = StoreCall("updateCartItemQuantity", cartItemId, "done")
    /\ UNCHANGED <<menu_items, orders, now, tz, inflight, categories, generated>>

ClearCart ==
    /\ client' = [client EXCEPT !.cart = <<>>]
    /\ resp' = StoreCall("clearCart", "none", "done")
    /\ UNCHANGED <<menu_items, orders, now, tz, inflight, categories, generated>>

\* removeProduct up to its await: the flags are set and DELETE /menu/:id is sent
RemoveProductStarts(productId) ==
    /\ client.deleting = "none"
    /\ client' = [client EXCEPT !.isLoading = TRUE, !.error = "null",
                                !.deleting = productId]
    /\ resp' = StoreCall("removeProduct", productId, "pending")
    /\ UNCHANGED <<menu_items, orders, now, tz, inflight, categories, generated>>

\* The server handles the DELETE and removeProduct resumes with its answer;
\* networkFails: the request did not reach the server.
RemoveProductSettles(networkFails) ==
    /\ client.deleting # "none"
    /\ LET productId == client.deleting
           deleted == ~networkFails /\ productId \in DOMAIN menu_items
       IN  /\ menu_items' = IF deleted THEN MenuItemsWithout(menu_items, productId)
                             ELSE menu_items
           /\ client' =
                 IF deleted
                 THEN [client EXCEPT
                          !.products = [id \in (DOMAIN @) \ {productId} |-> @[id]],
                          !.cart = CartWithoutProduct(@, productId),
                          !.isLoading = FALSE,
                          !.deleting = "none"]
                 ELSE [client EXCEPT !.error = "Failed to remove product",
                                     !.isLoading = FALSE,
                                     !.deleting = "none"]
           /\ resp' = StoreCall("removeProduct", productId,
                                IF deleted THEN "resolved" ELSE "rejected")
    /\ UNCHANGED <<orders, now, tz, inflight, categories, generated>>

\* response.ok of fetch
ResponseOk(status) == status >= 200 /\ status < 300

\* an ordersApi.create that resolves whatever the server answered
OrderCreated_AnyAnswer(response, networkFails) == ~networkFails

\* ordersApi.create resolves when the request was answered with a 2xx status
\* and a body whose success is true, and throws otherwise
OrderCreated(response, networkFails) ==
    /\ ~networkFails
    /\ ResponseOk(response.status)
    /\ response.json.success

\* processOrder up to its await: an empty cart throws at once, otherwise the
\* flags are set and POST /orders is sent on connection c with the cart's
\* lines and total; auth: the state of the stored token; room: the number of
\* orders the checked behaviour lets the table grow to
ProcessOrderStarts(c, auth, room) ==
    /\ inflight[c].pc = "idle"
    /\ IF Len(client.cart) = 0
       THEN /\ client' = [client EXCEPT !.error = "Cart is empty", !.isLoading = FALSE]
            /\ resp' = StoreCall("processOrder", "none", "rejected")
            /\ UNCHANGED inflight
       ELSE /\ Len(orders) < room
            /\ client' = [client EXCEPT !.isLoading = TRUE, !.error = "null"]
            /\ inflight' = [inflight EXCEPT ![c] =
                   [pc |-> "received",
                    req |-> [impl |-> "app", auth |-> auth,
                             items |-> [i \in 1..Len(client.cart) |->
                                           [itemId |-> client.cart[i].product.id,
                                            quantity |-> client.cart[i].quantity]],
                             total |-> CartTotal(client.cart),
                             paymentMethod |-> client.paymentMethod]]]
            /\ resp' = StoreCall("processOrder", "none", "pending")
    /\ UNCHANGED <<menu_items, orders, now, tz, categories, generated>>

\* processOrder resumes with the outcome of ordersApi.create; networkFails:
\* the answer did not reach the browser
ProcessOrderSettles(c, networkFails) ==
    /\ inflight[c].pc = "responded"
    /\ LET created == OrderCreated(inflight[c].resp, networkFails)
       IN  /\ client' =
                 IF created
                 THEN [client EXCEPT !.cart = <<>>, !.isLoading = FALSE,
                                     !.lastOrderCompletedAt = now]
                 ELSE [client EXCEPT !.error = "Failed to create order",
                                     !.isLoading = FALSE]
           /\ resp' = StoreCall("processOrder", "none",
                                IF created THEN "resolved" ELSE "rejected")
    /\ inflight' = [inflight EXCEPT ![c] = Idle]
    /\ UNCHANGED <<menu_items, orders, now, tz, categories, generated>>

(* ------------------- GET /orders/analytics/daily ---------------------- *)

\* days the default range reaches back: 30 in routes/orders.ts, 7 in app.ts
DefaultDaysRoutes == 30

DefaultDaysApp == 7

\* topItems.slice(0, 10)
TopItemsLimit == 10

Omitted == [kind |-> "omitted"]

\* new Date(string): a date-only string is UTC midnight of that day, a
\* date-time without zone is local time, one ending in Z is UTC
ParseDate(d, offset) ==
    IF d.kind = "date" THEN d.day * TicksPerDay
    ELSE IF d.kind = "local" THEN d.day * TicksPerDay + d.tick - offset
    ELSE d.day * TicksPerDay + d.tick

\* date.setHours(0, 0, 0, 0): the first instant of the date's local day
StartOfLocalDay(t, offset) == ((t + offset) \div TicksPerDay) * TicksPerDay - offset

\* date.setHours(23, 59, 59, 999): the last instant of the date's local day
EndOfLocalDay(t, offset) == StartOfLocalDay(t, offset) + TicksPerDay - 1

\* start of the queried range
RangeStart(impl, startDate, t, offset) ==
    IF impl = "routes"
    THEN StartOfLocalDay(IF startDate = Omitted
                         THEN t - DefaultDaysRoutes * TicksPerDay
                         ELSE ParseDate(startDate, offset), offset)
    ELSE IF startDate = Omitted
         THEN t - DefaultDaysApp * TicksPerDay
         ELSE ParseDate(startDate, offset)

\* end of the queried range
RangeEnd(impl, endDate, t, offset) ==
    EndOfLocalDay(IF endDate = Omitted THEN t ELSE ParseDate(endDate, offset), offset)

\* new Date(created_at).toISOString().split('T')[0], as a day number
DayOf(t) == t \div TicksPerDay

Reverse(seq) == [i \in 1..Len(seq) |-> seq[Len(seq) + 1 - i]]

\* the range filter with .lt in place of .lte
InRange_EndExclusive(row, start, end) == row.created_at >= start /\ row.created_at < end

\* .gte('created_at', start).lte('created_at', end)
InRange(row, start, end) == row.created_at >= start /\ row.created_at <= end

\* the rows of the range, newest first
OrdersInRange(table, start, end) ==
    LET Test(row) == InRange(row, start, end)
    IN  Reverse(SelectSeq(table, Test))

\* position of the first entry for the key, 0 if there is none
IndexOfDate(entries, date) ==
    IF \E i \in 1..Len(entries) : entries[i].date = date
    THEN CHOOSE i \in 1..Len(entries) :
            /\ entries[i].date = date
            /\ \A j \in 1..(i - 1) : entries[j].date # date
    ELSE 0

IndexOfItem(entries, itemId) ==
    IF \E i \in 1..Len(entries) : entries[i].itemId = itemId
    THEN CHOOSE i \in 1..Len(entries) :
            /\ entries[i].itemId = itemId
            /\ \A j \in 1..(i - 1) : entries[j].itemId # itemId
    ELSE 0

\* a rollup that books a line whose item has no catalog row at price 0
AddLine_CountsMissing(itemEntries, orderItem, catalog) ==
    LET itemRevenue == IF orderItem.itemId \in DOMAIN catalog
                       THEN catalog[orderItem.itemId].price * orderItem.quantity
                       ELSE 0
        i == IndexOfItem(itemEntries, orderItem.itemId)
    IN  IF i = 0
        THEN Append(itemEntries, [itemId |-> orderItem.itemId,
                                  quantity |-> orderItem.quantity,
                                  revenue |-> itemRevenue])
        ELSE [itemEntries EXCEPT ![i].quantity = @ + orderItem.quantity,
                                 ![i].revenue = @ + itemRevenue]

\* a rollup that books the unit price of a line whatever its quantity
AddLine_UnitRevenue(itemEntries, orderItem, catalog) ==
    IF orderItem.itemId \notin DOMAIN catalog THEN itemEntries
    ELSE LET itemRevenue == catalog[orderItem.itemId].price
             i == IndexOfItem(itemEntries, orderItem.itemId)
         IN  IF i = 0
             THEN Append(itemEntries, [itemId |-> orderItem.itemId,
                                       quantity |-> orderItem.quantity,
                                       revenue |-> itemRevenue])
             ELSE [itemEntries EXCEPT ![i].quantity = @ + orderItem.quantity,
                                      ![i].revenue = @ + itemRevenue]

\* one order line added to an item rollup; a line whose item has no catalog
\* row adds nothing
AddLine(itemEntries, orderItem, catalog) ==
    IF orderItem.itemId \notin DOMAIN catalog THEN itemEntries
    ELSE LET itemRevenue == catalog[orderItem.itemId].price * orderItem.quantity
             i == IndexOfItem(itemEntries, orderItem.itemId)
         IN  IF i = 0
             THEN Append(itemEntries, [itemId |-> orderItem.itemId,
                                       quantity |-> orderItem.quantity,
                                       revenue |-> itemRevenue])
             ELSE [itemEntries EXCEPT ![i].quantity = @ + orderItem.quantity,
                                      ![i].revenue = @ + itemRevenue]

\* order.items.forEach(...)
RECURSIVE AddLines(_, _, _)
AddLines(itemEntries, orderItems, catalog) ==
    IF orderItems = <<>> THEN itemEntries
    ELSE AddLines(AddLine(itemEntries, Head(orderItems), catalog),
                  Tail(orderItems), catalog)

NewDay(date) ==
    [date |-> date, transactions |-> 0, revenue |-> 0, items |-> <<>>,
     paymentMethods |-> [cash |-> 0, debit |-> 0, ewallet |-> 0]]

\* a count that books every order as cash
CountPayment_AllCash(counts, method, impl) == [counts EXCEPT !.cash = @ + 1]

\* paymentMethods[order.payment_method] += 1; app.ts books a method it does
\* not know as cash
CountPayment(counts, method, impl) ==
    IF method \in DOMAIN counts THEN [counts EXCEPT ![method] = @ + 1]
    ELSE IF impl = "app" THEN [counts EXCEPT !.cash = @ + 1]
    ELSE counts

\* the day's entry after one more order
DayWithOrder(day, order, catalog, impl) ==
    [day EXCEPT !.transactions = @ + 1,
                !.revenue = @ + order.total,
                !.paymentMethods = CountPayment(@, order.payment_method, impl),
                !.items = AddLines(@, order.items, catalog)]

\* the body of orders.forEach(...)
AddOrder(acc, order, catalog, impl) ==
    LET date == DayOf(order.created_at)
        days == IF IndexOfDate(acc.dailySales, date) = 0
                THEN Append(acc.dailySales, NewDay(date))
                ELSE acc.dailySales
        i == IndexOfDate(days, date)
    IN  [dailySales |-> [days EXCEPT ![i] = DayWithOrder(@, order, catalog, impl)],
         totalRevenue |-> acc.totalRevenue + order.total,
         totalTransactions |-> acc.totalTransactions + 1,
         itemSales |-> AddLines(acc.itemSales, order.items, catalog)]

RECURSIVE Aggregate(_, _, _, _)
Aggregate(acc, rows, catalog, impl) ==
    IF rows = <<>> THEN acc
    ELSE Aggregate(AddOrder(acc, Head(rows), catalog, impl), Tail(rows), catalog, impl)

EmptyAggregate ==
    [dailySales |-> <<>>, totalRevenue |-> 0, totalTransactions |-> 0,
     itemSales |-> <<>>]

\* Array.prototype.sort with a comparator b.key - a.key, stable and
\* descending; keys[i] is the key of seq[i]
RECURSIVE SortDescending(_, _)
SortDescending(seq, keys) ==
    IF seq = <<>> THEN <<>>
    ELSE LET n == Len(seq)
             sorted == SortDescending(SubSeq(seq, 1, n - 1), SubSeq(keys, 1, n - 1))
             ahead == Cardinality({i \in 1..(n - 1) : keys[i] >= keys[n]})
         IN  SubSeq(sorted, 1, ahead) \o <<seq[n]>> \o SubSeq(sorted, ahead + 1, n - 1)

\* .sort((a, b) => new Date(b.date).getTime() - new Date(a.date).getTime())
SortedDays(days) ==
    SortDescending(days, [i \in 1..Len(days) |-> days[i].date])

\* the ranking by quantity in both servers
TopItems_AllByQuantity(itemSales, impl) ==
    LET sorted == SortDescending(itemSales,
                      [i \in 1..Len(itemSales) |-> itemSales[i].quantity])
    IN  SubSeq(sorted, 1, IF Len(sorted) < TopItemsLimit THEN Len(sorted) ELSE TopItemsLimit)

\* by quantity in routes/orders.ts, by revenue in app.ts; the first ten
TopItems(itemSales, impl) ==
    LET sorted == IF impl = "routes"
                  THEN SortDescending(itemSales,
                           [i \in 1..Len(itemSales) |-> itemSales[i].quantity])
                  ELSE SortDescending(itemSales,
                           [i \in 1..Len(itemSales) |-> itemSales[i].revenue])
    IN  SubSeq(sorted, 1, IF Len(sorted) < TopItemsLimit THEN Len(sorted) ELSE TopItemsLimit)

\* a quotient kept as numerator and denominator
Quotient(n, d) == [num |-> n, den |-> d]

\* an average that divides whenever revenue is positive
AverageOrderValue_ByRevenue(totalRevenue, totalTransactions) ==
    IF totalRevenue > 0 THEN Quotient(totalRevenue, totalRevenue) ELSE Quotient(0, 1)

\* totalTransactions > 0 ? totalRevenue / totalTransactions : 0
AverageOrderValue(totalRevenue, totalTransactions) ==
    IF totalTransactions > 0 THEN Quotient(totalRevenue, totalTransactions)
    ELSE Quotient(0, 1)

\* the data of the 200 response
AnalyticsData(impl, rows, catalog, start, end) ==
    LET acc == Aggregate(EmptyAggregate, rows, catalog, impl)
        totalTransactions == IF impl = "app" THEN Len(rows) ELSE acc.totalTransactions
        dailySales == SortedDays(acc.dailySales)
    IN  [summary |-> [totalRevenue |-> acc.totalRevenue,
                      totalTransactions |-> totalTransactions,
                      averageOrderValue |->
                          AverageOrderValue(acc.totalRevenue, totalTransactions),
                      dateRange |-> [start |-> DayOf(start), end |-> DayOf(end)]],
         dailySales |-> dailySales,
         topItems |-> TopItems(acc.itemSales, impl),
         totalDays |-> Len(dailySales)]

\* a handler that answers from the orders alone when the catalog fetch errors
DailyAnalytics_IgnoresMenuError(q, failure) ==
    /\ LET start == RangeStart(q.impl, q.startDate, now, tz)
           end == RangeEnd(q.impl, q.endDate, now, tz)
           rows == OrdersInRange(orders, start, end)
       IN  resp' =
             IF ~Authenticated(q)
             THEN [op |-> "analytics", status |-> AuthFailureStatus(q), code |-> "none",
                   success |-> FALSE, query |-> q, storeError |-> "none"]
             ELSE IF "invalid" \in {q.startDate.kind, q.endDate.kind}
             THEN [op |-> "analytics", status |-> 400, code |-> "VALIDATION_ERROR",
                   success |-> FALSE, query |-> q, storeError |-> "none"]
             ELSE IF failure = "orders"
             THEN [op |-> "analytics", status |-> 500, code |-> "ANALYTICS_ERROR",
                   success |-> FALSE, query |-> q, storeError |-> failure]
             ELSE [op |-> "analytics", status |-> 200, code |-> "none",
                   success |-> TRUE, query |-> q, storeError |-> failure,
                   range |-> [start |-> start, end |-> end],
                   data |-> AnalyticsData(q.impl, rows,
                                          IF failure = "menu" THEN NoRows ELSE menu_items,
                                          start, end)]
    /\ UNCHANGED <<menu_items, orders, now, tz, inflight, catalogVars>>

\* q: [impl, auth, startDate, endDate]; failure: the store call that errors,
\* which the response record keeps as storeError
DailyAnalytics(q, failure) ==
    /\ LET start == RangeStart(q.impl, q.startDate, now, tz)
           end == RangeEnd(q.impl, q.endDate, now, tz)
           rows == OrdersInRange(orders, start, end)
       IN  resp' =
             IF ~Authenticated(q)
             THEN [op |-> "analytics", status |-> AuthFailureStatus(q), code |-> "none",
                   success |-> FALSE, query |-> q, storeError |-> "none"]
             ELSE IF "invalid" \in {q.startDate.kind, q.endDate.kind}
             THEN [op |-> "analytics", status |-> 400, code |-> "VALIDATION_ERROR",
                   success |-> FALSE, query |-> q, storeError |-> "none"]
             ELSE IF failure # "none"
             THEN [op |-> "analytics", status |-> 500, code |-> "ANALYTICS_ERROR",
                   success |-> FALSE, query |-> q, storeError |-> failure]
             ELSE [op |-> "analytics", status |-> 200, code |-> "none",
                   success |-> TRUE, query |-> q, storeError |-> "none",
                   range |-> [start |-> start, end |-> end],
                   data |-> AnalyticsData(q.impl, rows, menu_items, start, end)]
    /\ UNCHANGED <<menu_items, orders, now, tz, inflight, catalogVars>>

\* the data a 200 answer of implementation impl carries for the stored orders
\* and catalog and the range startDate..endDate
AnalyticsOf(impl, startDate, endDate) ==
    LET start == RangeStart(impl, startDate, now, tz)
        end == RangeEnd(impl, endDate, now, tz)
    IN  AnalyticsData(impl, OrdersInRange(orders, start, end), menu_items, start, end)

(* --------------- the browser's sales modal and its cache --------------- *)

\* CACHE_DURATION, five minutes, on a clock that ticks once a minute
CACHE_DURATION == 5

DateOnly(day) == [kind |-> "date", day |-> day]

\* emptyData: no sales, over the last seven days
EmptyData ==
    [summary |-> [totalRevenue |-> 0,
                  totalTransactions |-> 0,
                  averageOrderValue |-> Quotient(0, 1),
                  dateRange |-> [start |-> 0 - DefaultDaysApp, end |-> 0]],
     dailySales |-> <<>>,
     topItems |-> <<>>,
     totalDays |-> 0]

\* cachedData = null
NoData == [summary |-> "null"]

\* the modal's state when it is first rendered, closed, and the cache of its
\* module; fetches are the calls of getSalesAnalytics not yet settled
InitialModal ==
    [isOpen |-> FALSE,
     salesData |-> EmptyData,
     salesLoading |-> FALSE,
     salesError |-> "null",
     dateRange |-> [start |-> DateOnly(0 - DefaultDaysApp), end |-> DateOnly(0)],
     cachedData |-> NoData,
     cacheTimestamp |-> 0,
     fetches |-> {}]

\* cachedData && (now - cacheTimestamp) < CACHE_DURATION
CacheFresh(store, t) ==
    /\ store.cachedData # NoData
    /\ t - store.cacheTimestamp < CACHE_DURATION

\* fetchSalesData up to its await, called at time t
FetchSalesData(store, t) ==
    IF CacheFresh(store, t)
    THEN [store EXCEPT !.salesData = store.cachedData, !.salesError = "null"]
    ELSE [store EXCEPT !.salesLoading = TRUE, !.salesError = "null",
                       !.fetches = @ \cup {[range |-> store.dateRange, startedAt |-> t]}]

\* cachedData = null; cacheTimestamp = 0
CacheCleared(store) == [store EXCEPT !.cachedData = NoData, !.cacheTimestamp = 0]

\* isOpen becomes true and the effect calls fetchSalesData; most: the number
\* of unsettled fetches the checked behaviour allows
OpenModal(most) ==
    /\ ~client.isOpen
    /\ Cardinality(client.fetches) < most
    /\ client' = FetchSalesData([client EXCEPT !.isOpen = TRUE], now)
    /\ resp' = StoreCall("openModal", "none",
                         IF CacheFresh(client, now) THEN "cached" ELSE "fetching")
    /\ UNCHANGED <<menu_items, orders, now, tz, inflight, categories, generated>>

CloseModal ==
    /\ client.isOpen
    /\ client' = [client EXCEPT !.isOpen = FALSE]
    /\ resp' = StoreCall("closeModal", "none", "done")
    /\ UNCHANGED <<menu_items, orders, now, tz, inflight, categories, generated>>

\* the refresh button of the open modal
HandleRefresh(most) ==
    /\ client.isOpen
    /\ Cardinality(client.fetches) < most
    /\ client' = FetchSalesData(CacheCleared(client), now)
    /\ resp' = StoreCall("handleRefresh", "none", "fetching")
    /\ UNCHANGED <<menu_items, orders, now, tz, inflight, categories, generated>>

\* a date input of the open modal changes: the range is set and the cache
\* cleared; the effect calls fetchSalesData when the range is another one
HandleDateRangeChange(field, value, most) ==
    /\ client.isOpen
    /\ Cardinality(client.fetches) < most
    /\ LET range == [client.dateRange EXCEPT ![field] = value]
           changed == CacheCleared([client EXCEPT !.dateRange = range])
       IN  /\ client' = IF range # client.dateRange
                        THEN FetchSalesData(changed, now)
                        ELSE changed
           /\ resp' = StoreCall("handleDateRangeChange", field,
                                IF range # client.dateRange THEN "fetching" ELSE "idle")
    /\ UNCHANGED <<menu_items, orders, now, tz, inflight, categories, generated>>

\* One call of getSalesAnalytics settles and fetchSalesData resumes: the
\* server answers the range the call was made for; fails: the call throws.
FetchSettles(fetch, fails) ==
    /\ fetch \in client.fetches
    /\ LET apiData == AnalyticsOf("app", fetch.range.start, fetch.range.end)
           rest == client.fetches \ {fetch}
       IN  client' =
             IF fails
             THEN [client EXCEPT !.salesError = "Failed to fetch sales data",
                                 !.salesData = EmptyData,
                                 !.salesLoading = FALSE,
                                 !.fetches = rest]
             ELSE [client EXCEPT !.cachedData = apiData,
                                 !.cacheTimestamp = fetch.startedAt,
                                 !.salesData = apiData,
                                 !.salesLoading = FALSE,
                                 !.fetches = rest]
    /\ resp' = StoreCall("fetchSalesData", "none", IF fails THEN "rejected" ELSE "resolved")
    /\ UNCHANGED <<menu_items, orders, now, tz, inflight, categories, generated>>

(* ------------------------------ clock --------------------------------- *)

\* time passes, up to the last tick of the checked behaviour
TickTo(last) ==
    /\ now < last
    /\ now' = now + 1
    /\ resp' = NoResponse
    /\ UNCHANGED <<menu_items, orders, tz, inflight, catalogVars>>

Tick == TickTo(MaxTime)

(* --------------------------- specifications --------------------------- *)

Connections == {"c1"}

\* server offsets from UTC, in ticks
TZOffsets == {-1, 0, 1}

\* the catalog the migration seeds
SeededCatalog ==
    [id \in ItemIds |->
        IF id = "A"
        THEN [price |-> 1, name |-> "Whipped Coffee", category |-> "coffee"]
        ELSE [price |-> 2, name |-> "Iced Coffee", category |-> "drinks"]]

\* the categories the migration seeds, under the ids the store gave them
SeededCategories ==
    [id \in {"id-all", "id-coffee", "id-drinks", "id-food", "id-desserts"} |->
        [name |-> CASE id = "id-all" -> "all"
                    [] id = "id-coffee" -> "coffee"
                    [] id = "id-drinks" -> "drinks"
                    [] id = "id-food" -> "food"
                    [] OTHER -> "desserts"]]

\* defaultCategories of the browser's store
DefaultCategories ==
    {[id |-> "all", name |-> "all"], [id |-> "coffee", name |-> "coffee"],
     [id |-> "snacks", name |-> "snacks"], [id |-> "drinks", name |-> "drinks"]}

\* the state of the categories table and of the browser after start-up
InitCatalogVars ==
    /\ categories = SeededCategories
    /\ generated = 0
    /\ client = [categories |-> DefaultCategories] @@ InitialStore(SeededCatalog)
                    @@ InitialModal

InitAt(offsets) ==
    /\ menu_items = SeededCatalog
    /\ orders = <<>>
    /\ now = 0
    /\ tz \in offsets
    /\ inflight = [c \in Connections |-> Idle]
    /\ resp = NoResponse
    /\ InitCatalogVars

\* request bodies of POST /orders
Quantities == {0, 1, 2}

LineItems == [itemId : ItemIds, quantity : Quantities]
                 \cup {[itemId |-> MalformedId, quantity |-> 1]}

ItemLists == {<<>>} \cup {<<l>> : l \in LineItems}
                    \cup {<<l, m>> : l \in LineItems, m \in LineItems}

Totals == {-1, 2, 3}

OrderRequest(impl, auth, items, total, paymentMethod) ==
    [impl |-> impl, auth |-> auth, items |-> items,
     total |-> total, paymentMethod |-> paymentMethod]

\* through the consolidated server with a good token: every cart with a
\* payable total, and the short carts with every total and payment method;
\* a few bodies without a good token, through both servers
IntakeRequests ==
    {OrderRequest("app", "valid", items, total, "cash") :
        items \in ItemLists, total \in Totals \ {-1}}
    \cup
    {OrderRequest("app", "valid", items, total, pm) :
        items \in {l \in ItemLists : Len(l) <= 1}, total \in Totals,
        pm \in {"cash", "card"}}
    \cup
    {OrderRequest(k[1], k[2], <<[itemId |-> "A", quantity |-> q]>>, 2, "debit") :
        k \in {<<"routes", "missing">>, <<"app", "missing">>, <<"app", "invalid">>},
        q \in {0, 2}}

\* orders the intake behaviours let the table grow to
MaxOrdersIntake == 1

OrderRequestArrivesIntake ==
    \E c \in Connections, req \in IntakeRequests :
        OrderRequestArrives(c, req, MaxOrdersIntake)

CreateOrderLookupAny ==
    \E c \in Connections, storeFails \in BOOLEAN : CreateOrderLookup(c, storeFails)

CreateOrderInsertAny ==
    \E c \in Connections, storeFails \in BOOLEAN : CreateOrderInsert(c, storeFails)

ResponseDeliveredAny == \E c \in Connections : ResponseDelivered(c)

UpdateMenuItemAny ==
    \E id \in ItemIds, price \in Prices \cup {0} : UpdateMenuItem(id, price)

DeleteMenuItemAny == \E id \in ItemIds : DeleteMenuItem(id)

\* A request for a path no route of app.ts matches falls through to the last
\* middleware, the 404 handler.
UnknownRoute ==
    /\ resp' = [op |-> "unknownRoute", status |-> 404, code |-> "none",
                json |-> ApiNotFoundBody]
    /\ UNCHANGED <<menu_items, orders, now, tz, inflight, catalogVars>>

InitIntake == InitAt({0})

NextIntake ==
    \/ OrderRequestArrivesIntake
    \/ CreateOrderLookupAny
    \/ CreateOrderInsertAny
    \/ ResponseDeliveredAny
    \/ UpdateMenuItemAny
    \/ DeleteMenuItemAny
    \/ UnknownRoute

SpecIntake == InitIntake /\ [][NextIntake]_vars

(* ----------------- sales: orders over several days -------------------- *)

Line(itemId, quantity) == [itemId |-> itemId, quantity |-> quantity]

\* carts of the counter, each sent with a total one cent above the catalog sum
SalesRequests ==
    {OrderRequest("routes", "valid", cart[1], cart[2], pm) :
        cart \in {<<<<Line("A", 1)>>, 2>>, <<<<Line("A", 2), Line("B", 1)>>, 5>>},
        pm \in PaymentMethods}

MaxDay == MaxTime \div TicksPerDay

DateInputs ==
    {Omitted} \cup {[kind |-> "date", day |-> d] : d \in 0..MaxDay}

AnalyticsQueries ==
    {[impl |-> impl, auth |-> "valid", startDate |-> sd, endDate |-> ed] :
        impl \in {"routes", "app"},
        sd \in DateInputs \ {Omitted}, ed \in DateInputs \ {Omitted}}
    \cup
    {[impl |-> impl, auth |-> "valid", startDate |-> Omitted, endDate |-> Omitted] :
        impl \in {"routes", "app"}}
    \cup
    {[impl |-> "app", auth |-> "missing", startDate |-> Omitted, endDate |-> Omitted],
     [impl |-> "routes", auth |-> "valid", startDate |-> [kind |-> "invalid"],
      endDate |-> Omitted]}

DefaultRangeQueries ==
    {[impl |-> impl, auth |-> "valid", startDate |-> Omitted, endDate |-> Omitted] :
        impl \in {"routes", "app"}}

OrderRequestArrivesSales ==
    \E c \in Connections, req \in SalesRequests : OrderRequestArrives(c, req, MaxOrders)

DailyAnalyticsAny ==
    \/ \E q \in AnalyticsQueries : DailyAnalytics(q, "none")
    \/ \E q \in DefaultRangeQueries, failure \in {"orders", "menu"} :
          DailyAnalytics(q, failure)

InitSales == InitAt(TZOffsets)

NextSales ==
    \/ OrderRequestArrivesSales
    \/ CreateOrderLookupAny
    \/ CreateOrderInsertAny
    \/ ResponseDeliveredAny
    \/ DailyAnalyticsAny
    \/ Tick

SpecSales == InitSales /\ [][NextSales]_vars

(* ------------- lifecycle: orders under later operations --------------- *)

\* last tick of the lifecycle behaviours
MaxTimeLifecycle == 1

LifecycleRequests ==
    {OrderRequest("routes", "valid", <<Line("A", 1), Line("B", 1)>>, 3, "cash")}

OrderRequestArrivesLifecycle ==
    \E c \in Connections, req \in LifecycleRequests :
        OrderRequestArrives(c, req, MaxOrders)

UpdateOrderStatusAny ==
    \E id \in 1..(MaxOrders + 1), status \in Statuses \cup {"refunded"} :
        UpdateOrderStatus(id, status)

GetOrderAny ==
    \E id \in 0..(MaxOrders + 1), storeFails \in BOOLEAN : GetOrder(id, storeFails)

DailyAnalyticsLifecycle == \E q \in DefaultRangeQueries : DailyAnalytics(q, "none")

InitLifecycle == InitAt({0})

\* the price of A changes, B leaves the menu
UpdateMenuItemLifecycle == \E price \in Prices \cup {0} : UpdateMenuItem("A", price)

DeleteMenuItemLifecycle == DeleteMenuItem("B")

TickLifecycle == TickTo(MaxTimeLifecycle)

NextLifecycle ==
    \/ OrderRequestArrivesLifecycle
    \/ CreateOrderLookupAny
    \/ CreateOrderInsertAny
    \/ ResponseDeliveredAny
    \/ UpdateOrderStatusAny
    \/ GetOrderAny
    \/ UpdateMenuItemLifecycle
    \/ DeleteMenuItemLifecycle
    \/ DailyAnalyticsLifecycle
    \/ TickLifecycle

SpecLifecycle == InitLifecycle /\ [][NextLifecycle]_vars

(* ------------- ranking: a menu of more than ten items ----------------- *)

\* last tick of the ranking behaviours
MaxTimeRanking == 2

\* the catalog after POST /menu has added items to it: eleven items
RankingPrice(id) ==
    IF id \in {"A", "E", "I", "K"} THEN 1
    ELSE IF id \in {"B", "F", "J"} THEN 2
    ELSE IF id \in {"C", "G"} THEN 3
    ELSE 4

RankingCatalog ==
    [id \in ItemIds \cup MoreItemIds |->
        [price |-> RankingPrice(id), name |-> id, category |-> "coffee"]]

\* one of everything on the menu, and two of the last item
WholeMenuCart ==
    <<Line("A", 1), Line("B", 1), Line("C", 1), Line("D", 1), Line("E", 1), Line("F", 1),
      Line("G", 1), Line("H", 1), Line("I", 1), Line("J", 1), Line("K", 1)>>

RankingRequests ==
    {OrderRequest("routes", "valid", WholeMenuCart, 24, "cash"),
     OrderRequest("routes", "valid", <<Line("K", 2)>>, 2, "debit")}

\* the whole stored history, and the second tick onwards
RankingQueries ==
    {[impl |-> impl, auth |-> "valid", startDate |-> sd, endDate |-> Omitted] :
        impl \in {"routes", "app"},
        sd \in {Omitted, [kind |-> "utc", day |-> 0, tick |-> 1]}}

InitRanking ==
    /\ menu_items = RankingCatalog
    /\ orders = <<>>
    /\ now = 0
    /\ tz = 0
    /\ inflight = [c \in Connections |-> Idle]
    /\ resp = NoResponse
    /\ InitCatalogVars

OrderRequestArrivesRanking ==
    \E c \in Connections, req \in RankingRequests : OrderRequestArrives(c, req, MaxOrders)

CreateOrderLookupRanking == \E c \in Connections : CreateOrderLookup(c, FALSE)

CreateOrderInsertRanking == \E c \in Connections : CreateOrderInsert(c, FALSE)

DailyAnalyticsRanking ==
    \E q \in RankingQueries, failure \in {"none", "orders", "menu"} :
        DailyAnalytics(q, failure)

\* D leaves the menu
DeleteMenuItemRanking == DeleteMenuItem("D")

\* K is repriced after it was sold
UpdateMenuItemRanking == UpdateMenuItem("K", 3)

TickRanking == TickTo(MaxTimeRanking)

NextRanking ==
    \/ OrderRequestArrivesRanking
    \/ CreateOrderLookupRanking
    \/ CreateOrderInsertRanking
    \/ ResponseDeliveredAny
    \/ DeleteMenuItemRanking
    \/ UpdateMenuItemRanking
    \/ DailyAnalyticsRanking
    \/ TickRanking

SpecRanking == InitRanking /\ [][NextRanking]_vars

(* ------------- date ranges: explicit startDate and endDate ------------ *)

\* last tick of the date-range behaviours
MaxTimeRange == 5

RangeRequests == {OrderRequest("routes", "valid", <<Line("A", 1)>>, 1, "cash")}

\* date-only strings for each day of the behaviour, and a date-time of the
\* second day with a time of day
DateOnlyInputs == {[kind |-> "date", day |-> d] : d \in 0..(MaxTimeRange \div TicksPerDay)}

ExplicitDates == DateOnlyInputs \cup {[kind |-> "utc", day |-> 1, tick |-> 1]}

ExplicitRangeQueries ==
    {[impl |-> impl, auth |-> "valid", startDate |-> sd, endDate |-> ed] :
        impl \in {"routes", "app"}, sd \in ExplicitDates, ed \in ExplicitDates}

InitRange == InitAt(TZOffsets)

OrderRequestArrivesRange ==
    \E c \in Connections, req \in RangeRequests : OrderRequestArrives(c, req, MaxOrders)

CreateOrderLookupRange == \E c \in Connections : CreateOrderLookup(c, FALSE)

CreateOrderInsertRange == \E c \in Connections : CreateOrderInsert(c, FALSE)

DailyAnalyticsRange == \E q \in ExplicitRangeQueries : DailyAnalytics(q, "none")

TickRange == TickTo(MaxTimeRange)

NextRange ==
    \/ OrderRequestArrivesRange
    \/ CreateOrderLookupRange
    \/ CreateOrderInsertRange
    \/ ResponseDeliveredAny
    \/ DailyAnalyticsRange
    \/ TickRange

SpecRange == InitRange /\ [][NextRange]_vars

(* ------------- concurrency: two connections at once ------------------- *)

Clients == {"c1", "c2"}

\* carts priced at the seeded catalog
ConcurrentRequests ==
    {OrderRequest("routes", "valid", <<Line("A", 1)>>, 1, "cash"),
     OrderRequest("routes", "valid", <<Line("A", 2), Line("B", 1)>>, 4, "cash")}

InitConcurrent ==
    /\ menu_items = SeededCatalog
    /\ orders = <<>>
    /\ now = 0
    /\ tz = 0
    /\ inflight = [c \in Clients |-> Idle]
    /\ resp = NoResponse
    /\ InitCatalogVars

OrderRequestArrivesConcurrent ==
    \E c \in Clients, req \in ConcurrentRequests : OrderRequestArrives(c, req, MaxOrders)

CreateOrderLookupConcurrent == \E c \in Clients : CreateOrderLookup(c, FALSE)

CreateOrderInsertConcurrent == \E c \in Clients : CreateOrderInsert(c, FALSE)

ResponseDeliveredConcurrent == \E c \in Clients : ResponseDelivered(c)

UpdateMenuItemConcurrent == \E price \in Prices : UpdateMenuItem("A", price)

NextConcurrent ==
    \/ OrderRequestArrivesConcurrent
    \/ CreateOrderLookupConcurrent
    \/ CreateOrderInsertConcurrent
    \/ ResponseDeliveredConcurrent
    \/ UpdateMenuItemConcurrent

SpecConcurrent == InitConcurrent /\ [][NextConcurrent]_vars

(* ------------- catalog: categories and menu items --------------------- *)

NewCategoryNames == {"tea", "Coffee", ""}

RenamedCategoryIds == {"id-food", "id-1", "id-missing"}

RenamedCategoryNames == {"Tea", "Coffee"}

DeletedCategoryIds == {"id-all", "id-coffee", "id-1", "id-missing"}

\* bodies of POST /menu
NewMenuItems ==
    [name : {"Mocha"}, price : {-1, 0, 1}, category : {"id-coffee"}]
    \cup
    [name : {"whipped coffee", "M"}, price : {1}, category : {"id-coffee"}]
    \cup
    [name : {"Mocha"}, price : {1}, category : {"coffee", "id-1"}]

\* ids the browser asks to remove: of its default list and of a loaded list
RemovedCategoryIds == {"all", "id-all", "id-1"}

InitCatalog == InitAt({0})

CreateCategoryAny == \E name \in NewCategoryNames : CreateCategory(name)

UpdateCategoryAny ==
    \E id \in RenamedCategoryIds, name \in RenamedCategoryNames : UpdateCategory(id, name)

DeleteCategoryAny == \E id \in DeletedCategoryIds : DeleteCategory(id)

CreateMenuItemAny == \E body \in NewMenuItems : CreateMenuItem(body)

UpdateMenuItemCatalog ==
    \E price \in {-1, 0, 2} : UpdateMenuItem("A", price)

UpdateMenuItemCategoryAny ==
    \E category \in {"id-1", "drinks"} : UpdateMenuItemCategory("A", category)

DeleteMenuItemCatalog == DeleteMenuItem("A")

RemoveCategoryAny == \E id \in RemovedCategoryIds : RemoveCategory(id)

NextCatalog ==
    \/ CreateCategoryAny
    \/ UpdateCategoryAny
    \/ DeleteCategoryAny
    \/ CreateMenuItemAny
    \/ UpdateMenuItemCatalog
    \/ UpdateMenuItemCategoryAny
    \/ DeleteMenuItemCatalog
    \/ LoadCategories
    \/ RemoveCategoryAny

SpecCatalog == InitCatalog /\ [][NextCatalog]_vars

(* ------------------ counter: the browser's cart ----------------------- *)

\* last tick of the counter behaviours
MaxTimeClient == 1

\* largest quantity of a cart entry
MaxCartQuantity == 2

\* orders the counter behaviours store
MaxOrdersClient == 1

InitClient == InitAt({0})

AddToCartAny == \E productId \in ItemIds : AddToCart(productId, MaxCartQuantity)

RemoveFromCartAny == \E cartItemId \in 0..MaxTimeClient : RemoveFromCart(cartItemId)

UpdateCartItemQuantityAny ==
    \E cartItemId \in 0..MaxTimeClient, quantity \in {0, MaxCartQuantity} :
        UpdateCartItemQuantity(cartItemId, quantity)

RemoveProductStartsAny == RemoveProductStarts("B")

RemoveProductSettlesAny == \E networkFails \in BOOLEAN : RemoveProductSettles(networkFails)

ProcessOrderStartsAny ==
    \E c \in Connections, auth \in {"valid", "invalid"} :
        ProcessOrderStarts(c, auth, MaxOrdersClient)

ProcessOrderSettlesAny ==
    \E c \in Connections, networkFails \in BOOLEAN : ProcessOrderSettles(c, networkFails)

CreateOrderLookupClient == \E c \in Connections : CreateOrderLookup(c, FALSE)

CreateOrderInsertClient == \E c \in Connections : CreateOrderInsert(c, FALSE)

\* another terminal reprices A
UpdateMenuItemClient == UpdateMenuItem("A", 2)

TickClient == TickTo(MaxTimeClient)

NextClient ==
    \/ AddToCartAny
    \/ RemoveFromCartAny
    \/ UpdateCartItemQuantityAny
    \/ ClearCart
    \/ RemoveProductStartsAny
    \/ RemoveProductSettlesAny
    \/ ProcessOrderStartsAny
    \/ CreateOrderLookupClient
    \/ CreateOrderInsertClient
    \/ ProcessOrderSettlesAny
    \/ UpdateMenuItemClient
    \/ TickClient

SpecClient == InitClient /\ [][NextClient]_vars

(* ------------------ listing: pages of stored orders ------------------- *)

\* last tick of the listing behaviours
MaxTimeListing == 1

\* orders the listing behaviours store
MaxOrdersListing == 3

ListingRequests == {OrderRequest("routes", "valid", <<Line("A", 1)>>, 1, "cash")}

\* pages of one and of two orders, and the default page size
ListQueries ==
    {[impl |-> "routes", auth |-> "valid", limit |-> limit, page |-> page,
      status |-> status] :
        limit \in {"1", "2", Undefined}, page \in {"1", "2", "3", Undefined},
        status \in {Undefined, "pending"}}
    \cup
    {[impl |-> "routes", auth |-> "valid", limit |-> "0", page |-> "1",
      status |-> Undefined],
     [impl |-> "routes", auth |-> "valid", limit |-> "1", page |-> "0",
      status |-> Undefined],
     [impl |-> "routes", auth |-> "valid", limit |-> "1", page |-> "1",
      status |-> "refunded"],
     [impl |-> "app", auth |-> "missing", limit |-> "1", page |-> "1",
      status |-> Undefined],
     [impl |-> "app", auth |-> "valid", limit |-> "2", page |-> "1",
      status |-> "completed"]}

InitListing == InitAt({0})

OrderRequestArrivesListing ==
    \E c \in Connections, req \in ListingRequests :
        OrderRequestArrives(c, req, MaxOrdersListing)

CreateOrderLookupListing == \E c \in Connections : CreateOrderLookup(c, FALSE)

CreateOrderInsertListing == \E c \in Connections : CreateOrderInsert(c, FALSE)

UpdateOrderStatusListing ==
    \E id \in 1..MaxOrdersListing : UpdateOrderStatus(id, "completed")

GetOrdersAny == \E q \in ListQueries, storeFails \in BOOLEAN : GetOrders(q, storeFails)

TickListing == TickTo(MaxTimeListing)

NextListing ==
    \/ OrderRequestArrivesListing
    \/ CreateOrderLookupListing
    \/ CreateOrderInsertListing
    \/ ResponseDeliveredAny
    \/ UpdateOrderStatusListing
    \/ GetOrdersAny
    \/ TickListing

SpecListing == InitListing /\ [][NextListing]_vars

(* ------------------ sales modal: the browser's cache ------------------ *)

\* last minute of the modal behaviours
MaxTimeModal == 6

\* unsettled fetches at a time
MaxFetches == 2

InitModal == InitAt({0})

OpenModalAny == OpenModal(MaxFetches)

HandleRefreshAny == HandleRefresh(MaxFetches)

HandleDateRangeChangeAny ==
    \E field \in {"start", "end"}, day \in {0, 1} :
        HandleDateRangeChange(field, DateOnly(day), MaxFetches)

FetchSettlesAny ==
    \E fetch \in client.fetches, fails \in BOOLEAN : FetchSettles(fetch, fails)

TickModal == TickTo(MaxTimeModal)

NextModal ==
    \/ OpenModalAny
    \/ CloseModal
    \/ HandleRefreshAny
    \/ HandleDateRangeChangeAny
    \/ FetchSettlesAny
    \/ TickModal

SpecModal == InitModal /\ [][NextModal]_vars

(* ======================= order intake: properties ===================== *)

RECURSIVE SumTo(_, _)
SumTo(f, n) == IF n = 0 THEN 0 ELSE f[n] + SumTo(f, n - 1)

\* sum over the lines of quantity times the price in the rows the lookup read
CatalogSum(items, rows) ==
    SumTo([i \in 1..Len(items) |-> items[i].quantity * rows[items[i].itemId].price],
          Len(items))

AllLinesExist(items, rows) == \A i \in 1..Len(items) : items[i].itemId \in DOMAIN rows

\* the handler of connection c answers in this step
Answers(c) == inflight[c].pc = "lookedUp" /\ inflight'[c].pc = "responded"

\* C1: an accepted request (201) stores an order whose total is the sum over
\* the request's lines of quantity times the catalog price read by that
\* request's lookup, whatever total the client sent.
C1_StoredTotalIsCatalogSum ==
    \A c \in Connections :
        (inflight[c].pc = "responded" /\ inflight[c].resp.status = 201) =>
            /\ inflight[c].resp.orderId \in 1..Len(orders)
            /\ AllLinesExist(inflight[c].req.items, inflight[c].existingItems)
            /\ orders[inflight[c].resp.orderId].total =
                   CatalogSum(inflight[c].req.items, inflight[c].existingItems)
            /\ Abs(inflight[c].req.total
                     - CatalogSum(inflight[c].req.items, inflight[c].existingItems)) <= 1

\* an accepted two-line order whose stored total is not the total the client sent
C1_Witness ==
    \E c \in Connections :
        /\ inflight[c].pc = "responded"
        /\ inflight[c].resp.status = 201
        /\ Len(inflight[c].req.items) = 2
        /\ orders[inflight[c].resp.orderId].total # inflight[c].req.total

\* C2: when every line's item was found by the lookup and the client total
\* differs from the catalog-derived sum by more than 0.01, the handler answers
\* 400 TOTAL_MISMATCH and the stored orders are unchanged.
C2_MismatchRejected ==
    [][\A c \in Connections :
          (/\ Answers(c)
           /\ AllLinesExist(inflight[c].req.items, inflight[c].existingItems)
           /\ Abs(CatalogSum(inflight[c].req.items, inflight[c].existingItems)
                    - inflight[c].req.total) > 1)
          => (/\ inflight'[c].resp.status = 400
              /\ inflight'[c].resp.code = "TOTAL_MISMATCH"
              /\ orders' = orders)]_vars

\* C3: when the lookup found no row for at least one line's itemId, the
\* handler answers 400 INVALID_ITEMS and the stored orders are unchanged,
\* whatever the other lines and the client total are.
C3_MissingItemRejected ==
    [][\A c \in Connections :
          (/\ Answers(c)
           /\ ~AllLinesExist(inflight[c].req.items, inflight[c].existingItems))
          => (/\ inflight'[c].resp.status = 400
              /\ inflight'[c].resp.code = "INVALID_ITEMS"
              /\ orders' = orders)]_vars

\* a two-line cart with one existing and one missing item, and a total equal
\* to the price of the existing line, was answered INVALID_ITEMS
C3_Witness ==
    \E c \in Connections :
        /\ inflight[c].pc = "responded"
        /\ inflight[c].resp.code = "INVALID_ITEMS"
        /\ Len(inflight[c].req.items) = 2
        /\ \E i \in 1..2 :
              /\ inflight[c].req.items[i].itemId \in DOMAIN inflight[c].existingItems
              /\ inflight[c].req.total =
                     inflight[c].req.items[i].quantity
                       * inflight[c].existingItems[inflight[c].req.items[i].itemId].price
        /\ \E i \in 1..2 :
              inflight[c].req.items[i].itemId \notin DOMAIN inflight[c].existingItems

\* C4: a cart in which every itemId exists in the catalog, a cart that lists
\* the same existing itemId on two lines included, is never answered
\* INVALID_ITEMS.
C4_ExistingCartNotInvalid ==
    [][\A c \in Connections :
          (/\ Answers(c)
           /\ AllLinesExist(inflight[c].req.items, inflight[c].existingItems))
          => inflight'[c].resp.code # "INVALID_ITEMS"]_vars

\* the structural rules of the request body
StructurallyInvalid(req) ==
    \/ req.items = <<>>
    \/ \E i \in 1..Len(req.items) : req.items[i].quantity < 1
    \/ \E i \in 1..Len(req.items) : req.items[i].itemId = MalformedId
    \/ req.total < 0
    \/ req.paymentMethod \notin {"cash", "debit", "ewallet"}

PassesAuthentication(req) == req.impl = "routes" \/ req.auth = "valid"

\* C5: a request (past authentication, where the server has it) with an empty
\* items list, a quantity below 1, a malformed itemId, a negative total or a
\* paymentMethod outside {cash, debit, ewallet} is answered 400
\* VALIDATION_ERROR without any store call, and orders and catalog are unchanged.
C5_ValidationFirst ==
    [][\A c \in Connections :
          (/\ inflight[c].pc = "received"
           /\ inflight'[c].pc # "received"
           /\ PassesAuthentication(inflight[c].req)
           /\ StructurallyInvalid(inflight[c].req))
          => (/\ inflight'[c].pc = "responded"
              /\ inflight'[c].resp.status = 400
              /\ inflight'[c].resp.code = "VALIDATION_ERROR"
              /\ inflight'[c].resp.storeError = "none"
              /\ orders' = orders
              /\ menu_items' = menu_items)]_vars

\* a request whose only flaw is a quantity of 0 on its second line was answered
\* VALIDATION_ERROR while its first line's item exists
C5_Witness ==
    \E c \in Connections :
        /\ inflight[c].pc = "responded"
        /\ inflight[c].resp.code = "VALIDATION_ERROR"
        /\ Len(inflight[c].req.items) = 2
        /\ inflight[c].req.items[1].quantity >= 1
        /\ inflight[c].req.items[1].itemId \in DOMAIN menu_items
        /\ inflight[c].req.items[2].quantity = 0
        /\ inflight[c].req.items[2].itemId \in ItemIds
        /\ inflight[c].req.total >= 0
        /\ inflight[c].req.paymentMethod = "cash"

\* C8: every stored order has a payment method in {cash, debit, ewallet}, a
\* non-empty list of lines each with quantity at least 1 and a total of at
\* least 0, and an order enters the table with status pending.
C8_StoredOrderShape ==
    /\ [](\A k \in 1..Len(orders) :
            /\ orders[k].payment_method \in {"cash", "debit", "ewallet"}
            /\ orders[k].status \in {"pending", "completed", "cancelled"}
            /\ Len(orders[k].items) >= 1
            /\ \A i \in 1..Len(orders[k].items) : orders[k].items[i].quantity >= 1
            /\ orders[k].total >= 0)
    /\ [][Len(orders') > Len(orders) =>
            /\ Len(orders') = Len(orders) + 1
            /\ orders'[Len(orders')].status = "pending"]_vars

\* an order is stored
C8_Witness == Len(orders) >= 1 /\ Len(orders[1].items) = 2

(* ===================== order lifecycle: properties ==================== *)

\* C6: whatever later operation runs (price update, menu item delete, status
\* update, creation of other orders, analytics query), a stored order stays
\* stored and keeps its id, items, total, payment method and creation
\* timestamp; only status and the update timestamp may change.
C6_OrderImmutable ==
    [][/\ Len(orders') >= Len(orders)
       /\ \A k \in 1..Len(orders) :
            /\ orders'[k].id = orders[k].id
            /\ orders'[k].items = orders[k].items
            /\ orders'[k].total = orders[k].total
            /\ orders'[k].payment_method = orders[k].payment_method
            /\ orders'[k].created_at = orders[k].created_at]_vars

\* the first order, created at price 1 for A with total 3, is completed at a
\* later tick, a second order exists, A now costs 2, B is deleted, and an
\* analytics query has just been answered
C6_Witness ==
    /\ Len(orders) = 2
    /\ orders[1].status = "completed"
    /\ orders[1].updated_at > orders[1].created_at
    /\ orders[1].total = 3
    /\ "B" \notin DOMAIN menu_items
    /\ menu_items["A"].price = 2
    /\ resp.op = "analytics"
    /\ resp.status = 200

\* C7: the only status changes an order undergoes are pending to completed
\* and pending to cancelled; a completed or cancelled order never changes
\* status again.
C7_StatusLifecycle ==
    [][\A k \in 1..Len(orders) :
          orders'[k].status # orders[k].status =>
              /\ orders[k].status = "pending"
              /\ orders'[k].status \in {"completed", "cancelled"}]_vars

(* ==================== sales analytics: properties ===================== *)

RECURSIVE SumOfTotals(_)
SumOfTotals(ks) ==
    IF ks = {} THEN 0
    ELSE LET k == CHOOSE x \in ks : TRUE
         IN  orders[k].total + SumOfTotals(ks \ {k})

\* the stored orders created within the range the handler queried
OrdersWithin(range) ==
    {k \in 1..Len(orders) :
        range.start <= orders[k].created_at /\ orders[k].created_at <= range.end}

AnalyticsAnswered == resp.op = "analytics" /\ resp.status = 200

\* C9: in a 200 response, summary.totalRevenue is the sum of total over
\* exactly the stored orders created within the queried range,
\* totalTransactions is their number, and averageOrderValue is
\* totalRevenue / totalTransactions, or 0 when there is no such order.
C9_SummaryReconciles ==
    AnalyticsAnswered =>
        LET within == OrdersWithin(resp.range)
            summary == resp.data.summary
            average == summary.averageOrderValue
        IN  /\ summary.totalRevenue = SumOfTotals(within)
            /\ summary.totalTransactions = Cardinality(within)
            /\ average.den # 0
            /\ within = {} => average.num = 0
            /\ within # {} =>
                   average.num * Cardinality(within) = SumOfTotals(within) * average.den

\* a query answered with two stored orders, one inside the range and one outside
C9_Witness ==
    /\ AnalyticsAnswered
    /\ Len(orders) = 2
    /\ Cardinality(OrdersWithin(resp.range)) = 1
    /\ resp.data.summary.totalRevenue > 0

\* C10: dailySales has exactly one entry for each calendar day (the date of
\* created_at as the response prints it) on which an in-range order was
\* created and none for other days; an entry's transactions, revenue and
\* paymentMethods are the number, the sum of totals and the per-method numbers
\* of that day's in-range orders; entries are strictly descending by date and
\* totalDays is the number of entries.
C10_DailyRollup ==
    AnalyticsAnswered =>
        LET within == OrdersWithin(resp.range)
            days == resp.data.dailySales
            OnDay(d) == {k \in within : orders[k].created_at \div TicksPerDay = d}
            Paid(d, m) == {k \in OnDay(d) : orders[k].payment_method = m}
        IN  /\ {days[i].date : i \in 1..Len(days)}
                  = {orders[k].created_at \div TicksPerDay : k \in within}
            /\ \A i \in 1..Len(days) :
                  /\ days[i].transactions = Cardinality(OnDay(days[i].date))
                  /\ days[i].revenue = SumOfTotals(OnDay(days[i].date))
                  /\ days[i].paymentMethods.cash = Cardinality(Paid(days[i].date, "cash"))
                  /\ days[i].paymentMethods.debit = Cardinality(Paid(days[i].date, "debit"))
                  /\ days[i].paymentMethods.ewallet
                         = Cardinality(Paid(days[i].date, "ewallet"))
            /\ \A i \in 1..(Len(days) - 1) : days[i].date > days[i + 1].date
            /\ resp.data.totalDays = Len(days)

\* a response with two days, a debit order on the later and an ewallet order
\* on the earlier
C10_Witness ==
    /\ AnalyticsAnswered
    /\ Len(resp.data.dailySales) = 2
    /\ resp.data.dailySales[1].paymentMethods.debit = 1
    /\ resp.data.dailySales[2].paymentMethods.ewallet = 1

(* ===================== item ranking: properties ======================= *)

RECURSIVE SumOver(_, _)
SumOver(f, ks) ==
    IF ks = {} THEN 0
    ELSE LET k == CHOOSE x \in ks : TRUE
         IN  f[k] + SumOver(f, ks \ {k})

\* units of item id on the lines of order k
UnitsOnOrder(id, k) ==
    LET items == orders[k].items
    IN  SumOver([i \in 1..Len(items) |->
                    IF items[i].itemId = id THEN items[i].quantity ELSE 0],
                1..Len(items))

\* units of item id on the lines of the orders ks
UnitsSold(id, ks) == SumOver([k \in ks |-> UnitsOnOrder(id, k)], ks)

\* C11: in a 200 response topItems has at most 10 entries, one per item, in
\* descending order of the ranking metric (quantity in routes/orders.ts,
\* revenue in app.ts); no item sold in the range and left out has a greater
\* metric than an entry; an entry's quantity is the sum of the quantities of
\* that item's lines over the in-range orders and its revenue is that
\* quantity times the item's current catalog price.
C11_TopItems ==
    AnalyticsAnswered =>
        LET within == OrdersWithin(resp.range)
            top == resp.data.topItems
            sold == {id \in DOMAIN menu_items : UnitsSold(id, within) > 0}
            Metric(id) == IF resp.query.impl = "routes"
                          THEN UnitsSold(id, within)
                          ELSE UnitsSold(id, within) * menu_items[id].price
            ranked == {top[i].itemId : i \in 1..Len(top)}
        IN  /\ Len(top) <= 10
            /\ Len(top) = IF Cardinality(sold) < 10 THEN Cardinality(sold) ELSE 10
            /\ Cardinality(ranked) = Len(top)
            /\ ranked \subseteq sold
            /\ \A i \in 1..Len(top) :
                  /\ top[i].quantity = UnitsSold(top[i].itemId, within)
                  /\ top[i].revenue = UnitsSold(top[i].itemId, within)
                                          * menu_items[top[i].itemId].price
            /\ \A i \in 1..(Len(top) - 1) :
                  Metric(top[i].itemId) >= Metric(top[i + 1].itemId)
            /\ \A id \in sold \ ranked :
                  \A i \in 1..Len(top) : Metric(id) <= Metric(top[i].itemId)

\* the consolidated server answers with ten of eleven items sold over two
\* in-range orders, and an item ranks above one that sold more units
C11_Witness ==
    /\ AnalyticsAnswered
    /\ resp.query.impl = "app"
    /\ Cardinality(OrdersWithin(resp.range)) = 2
    /\ Cardinality({id \in DOMAIN menu_items :
                        UnitsSold(id, OrdersWithin(resp.range)) > 0}) = 11
    /\ Len(resp.data.topItems) = 10
    /\ \E i \in 1..9 :
          resp.data.topItems[i].quantity < resp.data.topItems[i + 1].quantity

\* the in-range orders with a line whose item has no catalog row any more
OrdersWithStaleLine(ks) ==
    {k \in ks : \E i \in 1..Len(orders[k].items) :
                    orders[k].items[i].itemId \notin DOMAIN menu_items}

\* the query passes authentication and validation and both fetches succeed
AnalyticsFetched ==
    /\ resp.op = "analytics"
    /\ resp.storeError = "none"
    /\ Authenticated(resp.query)
    /\ "invalid" \notin {resp.query.startDate.kind, resp.query.endDate.kind}

\* C12: a query whose fetches succeed is answered 200 also when an in-range
\* order has a line whose item is no longer in the catalog; that line adds no
\* entry and no quantity or revenue to any day's item breakdown or to
\* topItems, while the order is counted in full in its day's and the
\* summary's transactions and revenue.
C12_BestEffortJoin ==
    AnalyticsFetched =>
        /\ resp.status = 200
        /\ LET within == OrdersWithin(resp.range)
               days == resp.data.dailySales
               top == resp.data.topItems
               OnDay(d) == {k \in within : orders[k].created_at \div TicksPerDay = d}
           IN  OrdersWithStaleLine(within) # {} =>
                 /\ \A i \in 1..Len(top) :
                       /\ top[i].itemId \in DOMAIN menu_items
                       /\ top[i].quantity = UnitsSold(top[i].itemId, within)
                       /\ top[i].revenue = UnitsSold(top[i].itemId, within)
                                               * menu_items[top[i].itemId].price
                 /\ \A i \in 1..Len(days) :
                       /\ \A j \in 1..Len(days[i].items) :
                             LET entry == days[i].items[j]
                             IN  /\ entry.itemId \in DOMAIN menu_items
                                 /\ entry.quantity
                                        = UnitsSold(entry.itemId, OnDay(days[i].date))
                                 /\ entry.revenue
                                        = UnitsSold(entry.itemId, OnDay(days[i].date))
                                            * menu_items[entry.itemId].price
                       /\ days[i].transactions = Cardinality(OnDay(days[i].date))
                       /\ days[i].revenue = SumOfTotals(OnDay(days[i].date))
                 /\ \A k \in within :
                       \E i \in 1..Len(days) : days[i].date = orders[k].created_at \div TicksPerDay
                 /\ resp.data.summary.totalTransactions = Cardinality(within)
                 /\ resp.data.summary.totalRevenue = SumOfTotals(within)

\* a query answered while D, sold on an in-range order of eleven lines, has
\* left the menu: the order's 24 are in the revenue, D is on no list
C12_Witness ==
    /\ AnalyticsAnswered
    /\ "D" \notin DOMAIN menu_items
    /\ OrdersWithStaleLine(OrdersWithin(resp.range)) # {}
    /\ resp.data.summary.totalRevenue >= 24
    /\ Len(resp.data.topItems) = 10
    /\ Len(resp.data.dailySales[1].items) = 10

(* =================== store failures: properties ======================= *)

\* the handler of connection c sends its response in this step
Responds(c) == inflight[c].pc \in {"received", "lookedUp"} /\ inflight'[c].pc = "responded"

\* C13: a POST /orders whose catalog lookup or insert returns a store error
\* is answered 500 CREATE_ERROR in the step that meets the error and stores
\* nothing; no request sends the lookup or the insert more than once, a
\* request that has been answered does nothing further, and one request adds
\* at most one order.
C13_StoreFailureFailsFast ==
    [][/\ \A c \in Connections :
            /\ (Responds(c) /\ inflight'[c].resp.storeError # "none") =>
                  /\ inflight'[c].resp.status = 500
                  /\ inflight'[c].resp.code = "CREATE_ERROR"
                  /\ orders' = orders
                  /\ inflight'[c].storeCalls =
                        IF inflight[c].pc = "received" THEN <<"select">>
                        ELSE <<"select", "insert">>
            /\ Responds(c) =>
                  inflight'[c].storeCalls \in {<<>>, <<"select">>, <<"select", "insert">>}
            /\ inflight[c].pc = "responded" => inflight'[c] \in {inflight[c], Idle}
       /\ Len(orders') <= Len(orders) + 1
       /\ Len(orders') > Len(orders) =>
            \E c \in Connections :
                /\ Responds(c)
                /\ inflight'[c].resp.status = 201
                /\ inflight'[c].resp.storeError = "none"]_vars

\* a request whose two-line cart and total are good was answered CREATE_ERROR
\* for a failed insert, and the table holds no order
C13_Witness ==
    \E c \in Connections :
        /\ inflight[c].pc = "responded"
        /\ inflight[c].resp.code = "CREATE_ERROR"
        /\ inflight[c].resp.storeError = "insert"
        /\ inflight[c].storeCalls = <<"select", "insert">>
        /\ ~TotalMismatch(CalculatedTotal(inflight[c].req.items, inflight[c].existingItems),
                          inflight[c].req.total)
        /\ Len(inflight[c].req.items) = 2
        /\ orders = <<>>

\* C14: a query whose order fetch or catalog fetch returns a store error is
\* answered 500 ANALYTICS_ERROR with success false and without data (no
\* summary, dailySales or topItems); a 200 response is sent only when neither
\* fetch returned an error, and it carries the data.
C14_AnalyticsFailure ==
    resp.op = "analytics" =>
        /\ resp.storeError # "none" =>
              /\ resp.status = 500
              /\ resp.code = "ANALYTICS_ERROR"
              /\ resp.success = FALSE
              /\ "data" \notin DOMAIN resp
        /\ resp.status = 200 =>
              /\ resp.storeError = "none"
              /\ resp.success = TRUE
              /\ {"summary", "dailySales", "topItems"} \subseteq DOMAIN resp.data
        /\ resp.status # 200 => resp.success = FALSE /\ "data" \notin DOMAIN resp

\* the catalog fetch failed after the order fetch would have returned two
\* stored orders
C14_Witness ==
    /\ resp.op = "analytics"
    /\ resp.storeError = "menu"
    /\ resp.status = 500
    /\ Len(orders) = 2

(* ===================== concurrency: properties ======================== *)

\* the lookup of connection c's request found a row for every line, and an
\* item of the cart has been deleted from the catalog since
DeletedSinceLookup(c) ==
    /\ inflight[c].pc = "lookedUp"
    /\ ~ItemsMissing(inflight[c].existingItems, ItemIdsOf(inflight[c].req.items))
    /\ ~TotalMismatch(CalculatedTotal(inflight[c].req.items, inflight[c].existingItems),
                      inflight[c].req.total)
    /\ \E id \in DOMAIN inflight[c].existingItems : id \notin DOMAIN menu_items

\* C15: when an item of the cart is deleted after the request's lookup found
\* it and before the insert, the request is answered 500 CREATE_ERROR and no
\* order is stored.
C15_DeletedItemFailsInsert ==
    [][\A c \in DOMAIN inflight :
          (DeletedSinceLookup(c) /\ inflight'[c].pc = "responded") =>
              /\ inflight'[c].resp.status = 500
              /\ inflight'[c].resp.code = "CREATE_ERROR"
              /\ orders' = orders]_vars

\* the catalog rows of the cart's items, as the catalog stands
CatalogRowsFor(items) ==
    [id \in (DOMAIN menu_items) \cap {items[i].itemId : i \in 1..Len(items)} |->
        [price |-> menu_items[id].price]]

\* C16: with several requests in flight and prices changing between their
\* steps, a request's lookup reads the catalog as it stands at that one step
\* and keeps what it read; every order stored for a request has as total the
\* sum of quantity times the prices of that reading; a step of one request
\* changes neither another request nor a stored order, and two requests with
\* the same body and the same reading get the same answer and the same total.
C16_ConcurrentTotals ==
    /\ [](\A c \in DOMAIN inflight :
             (inflight[c].pc = "responded" /\ inflight[c].resp.status = 201) =>
                 /\ AllLinesExist(inflight[c].req.items, inflight[c].existingItems)
                 /\ orders[inflight[c].resp.orderId].total =
                        CatalogSum(inflight[c].req.items, inflight[c].existingItems))
    /\ [](\A c, d \in DOMAIN inflight :
             (/\ inflight[c].pc = "responded"
              /\ inflight[d].pc = "responded"
              /\ inflight[c].req = inflight[d].req
              /\ inflight[c].existingItems = inflight[d].existingItems) =>
                 /\ inflight[c].resp.status = inflight[d].resp.status
                 /\ inflight[c].resp.code = inflight[d].resp.code
                 /\ inflight[c].resp.status = 201 =>
                        orders[inflight[c].resp.orderId].total
                          = orders[inflight[d].resp.orderId].total)
    /\ [][/\ \A c \in DOMAIN inflight :
               /\ (inflight[c].pc = "received" /\ inflight'[c].pc = "lookedUp") =>
                     inflight'[c].existingItems = CatalogRowsFor(inflight[c].req.items)
               /\ (inflight[c].pc = "lookedUp" /\ inflight'[c].pc # "lookedUp") =>
                     /\ inflight'[c].pc = "responded"
                     /\ inflight'[c].existingItems = inflight[c].existingItems
               /\ inflight'[c] # inflight[c] =>
                     \A d \in DOMAIN inflight \ {c} : inflight'[d] = inflight[d]
           /\ \A k \in 1..Len(orders) :
                 Len(orders') >= Len(orders) /\ orders'[k] = orders[k]]_vars

\* two connections sent the same cart, A was repriced between their lookups,
\* both were answered 201, and the two stored totals differ
C16_Witness ==
    \E c, d \in DOMAIN inflight :
        /\ c # d
        /\ inflight[c].pc = "responded"
        /\ inflight[d].pc = "responded"
        /\ inflight[c].resp.status = 201
        /\ inflight[d].resp.status = 201
        /\ inflight[c].req = inflight[d].req
        /\ inflight[c].existingItems # inflight[d].existingItems
        /\ orders[inflight[c].resp.orderId].total # orders[inflight[d].resp.orderId].total

(* ======================== catalog: properties ========================= *)

\* this step served a DELETE /categories/:id
CategoryDeleteServed ==
    \/ resp'.op = "deleteCategory"
    \/ resp'.op = "removeCategory" /\ resp'.status # 0

\* a menu item stores the category's identifier
CategoryReferenced(id) == \E item \in DOMAIN menu_items : menu_items[item].category = id

\* C17: a DELETE /categories/:id for a stored category that a menu item
\* references is answered CATEGORY_IN_USE and leaves the categories as they
\* are; a category leaves the table only when no menu item references it.
C17_CategoryDeletionGuard ==
    [][/\ (CategoryDeleteServed /\ resp'.id \in DOMAIN categories
                               /\ CategoryReferenced(resp'.id)) =>
              /\ resp'.code = "CATEGORY_IN_USE"
              /\ categories' = categories
       /\ \A id \in (DOMAIN categories) \ (DOMAIN categories') : ~CategoryReferenced(id)]_vars

\* C18: the categories table and the browser's list each hold a category
\* named all, whatever removeCategory calls and DELETE /categories/:id
\* requests were made.
C18_AllNeverDeleted ==
    /\ \E id \in DOMAIN categories : categories[id].name = "all"
    /\ \E cat \in client.categories : cat.name = "all"

EqualIgnoringCase(a, b) == ToLowerCase(a) = ToLowerCase(b)

\* the request of this step names a category name that another stored
\* category has, ignoring case
NamesExistingCategory ==
    \/ /\ resp'.op = "createCategory"
       /\ \E id \in DOMAIN categories : EqualIgnoringCase(categories[id].name, resp'.name)
    \/ /\ resp'.op = "updateCategory"
       /\ resp'.id \in DOMAIN categories
       /\ \E id \in (DOMAIN categories) \ {resp'.id} :
             EqualIgnoringCase(categories[id].name, resp'.name)

\* C19: no two stored categories have names equal ignoring case, and a
\* POST /categories or PUT /categories/:id whose name equals another stored
\* category's name ignoring case is answered 400 DUPLICATE_CATEGORY and
\* leaves the categories as they are.
C19_CategoryNamesUnique ==
    /\ [](\A c, d \in DOMAIN categories :
             EqualIgnoringCase(categories[c].name, categories[d].name) => c = d)
    /\ [][NamesExistingCategory =>
              /\ resp'.status = 400
              /\ resp'.code = "DUPLICATE_CATEGORY"
              /\ categories' = categories]_vars

\* C20: every stored menu item has a price above 0, and a POST /menu or PUT
\* /menu/:id whose price is 0 or negative is answered 400 VALIDATION_ERROR
\* and leaves the catalog as it is.
C20_PricePositive ==
    /\ [](\A id \in DOMAIN menu_items : menu_items[id].price > 0)
    /\ [][((resp'.op = "createMenuItem" /\ resp'.body.price <= 0)
               \/ (resp'.op = "updateMenuItem" /\ resp'.price <= 0)) =>
              /\ resp'.status = 400
              /\ resp'.code = "VALIDATION_ERROR"
              /\ menu_items' = menu_items]_vars

\* a POST /menu with price 0, a free name and an existing category was
\* rejected after A had been repriced
C20_Witness ==
    /\ resp.op = "createMenuItem"
    /\ resp.body.price = 0
    /\ resp.body.category \in DOMAIN categories
    /\ ItemsNamedLike(menu_items, resp.body.name) = {}
    /\ resp.code = "VALIDATION_ERROR"
    /\ "A" \in DOMAIN menu_items
    /\ menu_items["A"].price = 2

(* C21: every answer of the API that is not a success carries a JSON body
   with success false and an error object holding a message and a code; here
   for the answers of POST /orders and of the 404 handler. *)
IsErrorShape(json) ==
    /\ json.success = FALSE
    /\ "error" \in DOMAIN json
    /\ {"message", "code"} \subseteq DOMAIN json.error

C21_UniformErrorShape ==
    /\ \A c \in DOMAIN inflight :
           (inflight[c].pc = "responded" /\ inflight[c].resp.status >= 400)
               => IsErrorShape(inflight[c].resp.json)
    /\ resp.op = "unknownRoute" => IsErrorShape(resp.json)

(* C22: GET /orders/:id changes no stored state and answers the stored row of
   the id it names, and a stored row changes only in a step that is a status
   update of that row, so two reads of one id with no status update of it
   between them answer the same content whatever else ran in between; an id
   with no stored order is answered 404 NOT_FOUND. *)
C22_IdempotentRead ==
    /\ [](resp.op = "getOrder" =>
            /\ (resp.status = 200 =>
                   /\ resp.id \in 1..Len(orders)
                   /\ resp.data = orders[resp.id])
            /\ ((ValidOrderId(resp.id) /\ resp.id \notin 1..Len(orders)
                    /\ resp.status # 500)
                   => (resp.status = 404 /\ resp.code = "NOT_FOUND")))
    /\ [][resp'.op = "getOrder" =>
             UNCHANGED <<menu_items, orders, now, tz, inflight, catalogVars>>]_vars
    /\ [][\A k \in 1..Len(orders) :
             orders'[k] # orders[k] =>
                 /\ resp'.op = "updateStatus"
                 /\ orders'[k] = [orders[k] EXCEPT !.status = orders'[k].status,
                                                    !.updated_at = orders'[k].updated_at]]_vars

\* the second of two stored orders is read after the first was completed, the
\* price of A changed and B left the menu
C22_Witness ==
    /\ resp.op = "getOrder"
    /\ resp.status = 200
    /\ resp.id = 2
    /\ Len(orders) = 2
    /\ resp.data.id = 2
    /\ orders[1].status = "completed"
    /\ "B" \notin DOMAIN menu_items
    /\ menu_items["A"].price = 2

(* ====================== date ranges: properties ======================= *)

\* the calendar day, on the server's clock, of an instant
LocalDayOf(t) == (t + tz) \div TicksPerDay

\* the stored orders created on the calendar days first..last
OrdersOnDays(first, last) ==
    {k \in 1..Len(orders) :
        first <= LocalDayOf(orders[k].created_at) /\ LocalDayOf(orders[k].created_at) <= last}

ExplicitRangeAnswered ==
    /\ AnalyticsAnswered
    /\ resp.query.startDate # Omitted
    /\ resp.query.endDate # Omitted

(* C23: with an explicit startDate and endDate, the orders aggregated are
   exactly those created from 00:00:00.000 of the start's calendar day to
   23:59:59.999 of the end's calendar day, also when startDate carries a time
   of day later than an order of that day. *)
C23_RangeClamping ==
    ExplicitRangeAnswered =>
        LET expected == OrdersOnDays(LocalDayOf(ParseDate(resp.query.startDate, tz)),
                                     LocalDayOf(ParseDate(resp.query.endDate, tz)))
        IN  /\ OrdersWithin(resp.range) = expected
            /\ resp.data.summary.totalTransactions = Cardinality(expected)

(* C25: the day an in-range order is counted under is the calendar day of its
   creation on the server's clock, the clock the range was clamped with: each
   in-range order is counted in the one dailySales entry of that day, and
   every dailySales date lies between the requested start day and end day,
   for any server timezone offset. *)
C25_BucketingMatchesClamping ==
    ExplicitRangeAnswered =>
        LET within == OrdersWithin(resp.range)
            days == resp.data.dailySales
            first == resp.query.startDate.day
            last == resp.query.endDate.day
            OnLocalDay(d) == {k \in within : LocalDayOf(orders[k].created_at) = d}
        IN  /\ {days[i].date : i \in 1..Len(days)}
                  = {LocalDayOf(orders[k].created_at) : k \in within}
            /\ \A i \in 1..Len(days) :
                  /\ days[i].transactions = Cardinality(OnLocalDay(days[i].date))
                  /\ first <= days[i].date
                  /\ days[i].date <= last

AsSet(seq) == {seq[i] : i \in 1..Len(seq)}

(* C26: for the same stored orders and catalog and the same date-only
   startDate and endDate, routes/orders.ts and app.ts answer the same summary,
   the same totalDays, the same dailySales entries (date, transactions,
   revenue, paymentMethods and the same set of item rollups), and, with at
   most ten distinct items sold, the same set of topItems entries. *)
C26_ImplementationsAgree ==
    \A sd \in DateOnlyInputs, ed \in DateOnlyInputs :
        LET r == AnalyticsOf("routes", sd, ed)
            a == AnalyticsOf("app", sd, ed)
        IN  /\ r.summary = a.summary
            /\ r.totalDays = a.totalDays
            /\ Len(r.dailySales) = Len(a.dailySales)
            /\ \A i \in 1..Len(r.dailySales) :
                  /\ i <= Len(a.dailySales)
                  /\ r.dailySales[i].date = a.dailySales[i].date
                  /\ r.dailySales[i].transactions = a.dailySales[i].transactions
                  /\ r.dailySales[i].revenue = a.dailySales[i].revenue
                  /\ r.dailySales[i].paymentMethods = a.dailySales[i].paymentMethods
                  /\ AsSet(r.dailySales[i].items) = AsSet(a.dailySales[i].items)
            /\ AsSet(r.topItems) = AsSet(a.topItems)

(* =============== item revenue and order revenue: properties ============ *)

\* sum of revenue over a list of item entries
SumRevenue(entries) ==
    SumTo([i \in 1..Len(entries) |-> entries[i].revenue], Len(entries))

\* every line of the orders ks has a catalog row, and each order's stored
\* total is what its lines cost at the catalog's current prices
PricedAsStored(ks) ==
    \A k \in ks :
        /\ AllLinesExist(orders[k].items, menu_items)
        /\ orders[k].total = CatalogSum(orders[k].items, menu_items)

\* the items on the lines of the orders ks
ItemsSold(ks) ==
    UNION {{orders[k].items[i].itemId : i \in 1..Len(orders[k].items)} : k \in ks}

(* C27: while the catalog still prices the in-range orders as they were
   stored (no price change, no deletion since), the item revenues of a day
   add up to the day's revenue, and with at most ten distinct items sold the
   revenues of topItems add up to summary.totalRevenue; in every case an item
   entry's revenue is the units sold times the item's current price, while a
   day's revenue is the sum of the stored totals. *)
C27_ItemRevenue ==
    AnalyticsAnswered =>
        LET within == OrdersWithin(resp.range)
            days == resp.data.dailySales
            top == resp.data.topItems
            OnDay(d) == {k \in within : DayOf(orders[k].created_at) = d}
        IN  /\ \A i \in 1..Len(days) :
                  /\ PricedAsStored(OnDay(days[i].date))
                        => SumRevenue(days[i].items) = days[i].revenue
                  /\ days[i].revenue = SumOfTotals(OnDay(days[i].date))
                  /\ \A j \in 1..Len(days[i].items) :
                        LET entry == days[i].items[j]
                        IN  /\ entry.itemId \in DOMAIN menu_items
                            /\ entry.revenue
                                   = UnitsSold(entry.itemId, OnDay(days[i].date))
                                       * menu_items[entry.itemId].price
            /\ (PricedAsStored(within) /\ Cardinality(ItemsSold(within)) <= TopItemsLimit)
                  => SumRevenue(top) = resp.data.summary.totalRevenue
            /\ \A i \in 1..Len(top) :
                  /\ top[i].itemId \in DOMAIN menu_items
                  /\ top[i].revenue
                         = UnitsSold(top[i].itemId, within) * menu_items[top[i].itemId].price

\* two orders of two K each at the price they were stored with: K's revenue,
\* 4, is the whole revenue
C27_Witness ==
    /\ AnalyticsAnswered
    /\ Len(orders) = 2
    /\ OrdersWithin(resp.range) = {1, 2}
    /\ PricedAsStored({1, 2})
    /\ ItemsSold({1, 2}) = {"K"}
    /\ SumRevenue(resp.data.topItems) = 4
    /\ resp.data.summary.totalRevenue = 4

(* ===================== the browser's cart: properties ================= *)

CartEntries == {client.cart[i] : i \in 1..Len(client.cart)}

(* C28: after any sequence of cart operations the cart has at most one entry
   for a product id, every entry's quantity is at least 1, no entry is of a
   product that removeProduct took off the list, and a removeFromCart or
   updateCartItemQuantity, which names one entry by its cart item id, removes
   or alters no entry of another product: at most one entry. *)
C28_CartInvariant ==
    /\ [](/\ \A i, j \in 1..Len(client.cart) :
                client.cart[i].product.id = client.cart[j].product.id => i = j
          /\ \A i \in 1..Len(client.cart) :
                /\ client.cart[i].quantity >= 1
                /\ client.cart[i].product.id \in DOMAIN client.products)
    /\ [][resp'.op \in {"removeFromCart", "updateCartItemQuantity"} =>
             Cardinality({p \in DOMAIN client.products :
                             \E entry \in CartEntries :
                                 /\ entry.product.id = p
                                 /\ entry \notin CartEntries'}) <= 1]_vars

\* processOrder is called, on connection c, in this step
ProcessOrderCalled(c) ==
    /\ resp'.op = "processOrder"
    /\ inflight[c].pc = "idle"

\* processOrder resumes after its await, on connection c, in this step
ProcessOrderResumes(c) ==
    /\ resp'.op = "processOrder"
    /\ inflight[c].pc = "responded"

(* C29: processOrder with an empty cart is rejected with 'Cart is empty' and
   sends no request; when the order request succeeded the cart becomes empty,
   isLoading false and lastOrderCompletedAt is set; when it failed the cart
   stays as it was, error is set, isLoading becomes false and processOrder
   rejects; isLoading is false whenever processOrder has settled. *)
C29_ProcessOrderOutcome ==
    [][\A c \in Connections :
         /\ (ProcessOrderCalled(c) /\ Len(client.cart) = 0) =>
                /\ resp'.outcome = "rejected"
                /\ client'.error = "Cart is empty"
                /\ inflight' = inflight
                /\ client'.cart = client.cart
         /\ (ProcessOrderCalled(c) /\ Len(client.cart) > 0) =>
                /\ resp'.outcome = "pending"
                /\ inflight'[c].pc = "received"
         /\ ProcessOrderResumes(c) =>
                /\ resp'.outcome \in {"resolved", "rejected"}
                /\ inflight[c].resp.status # 201 => resp'.outcome = "rejected"
                /\ resp'.outcome = "resolved" =>
                       /\ client'.cart = <<>>
                       /\ client'.lastOrderCompletedAt = now
                       /\ client'.lastOrderCompletedAt # NullTime
                       /\ client'.error = client.error
                /\ resp'.outcome = "rejected" =>
                       /\ client'.cart = client.cart
                       /\ client'.error # "null"
                       /\ client'.lastOrderCompletedAt = client.lastOrderCompletedAt
         /\ (resp'.op = "processOrder" /\ resp'.outcome # "pending") =>
                ~client'.isLoading]_vars

\* the server refused a cart of A and B because A was repriced after the page
\* loaded: processOrder rejected and the two entries are still in the cart
C29_Witness ==
    /\ resp.op = "processOrder"
    /\ resp.outcome = "rejected"
    /\ Len(client.cart) = 2
    /\ client.error = "Failed to create order"
    /\ ~client.isLoading
    /\ menu_items["A"].price = 2
    /\ orders = <<>>

(* ====================== sales modal: properties ======================= *)

\* the answer of the server for the range the modal has selected
SelectedRangeData ==
    AnalyticsOf("app", client.dateRange.start, client.dateRange.end)

(* C30: once every fetch has settled, the cached data and the data on display
   are the answer for the selected date range; and the cache is read only
   while it is less than five minutes older than the start of the fetch that
   filled it. *)
C30_CacheCoherence ==
    /\ [](client.fetches = {} =>
            /\ client.cachedData # NoData => client.cachedData = SelectedRangeData
            /\ (client.salesError = "null" /\ client.salesData # EmptyData)
                   => client.salesData = SelectedRangeData)
    /\ [][(resp'.op = "openModal" /\ resp'.outcome = "cached") =>
             /\ client.cachedData # NoData
             /\ now - client.cacheTimestamp < CACHE_DURATION
             /\ client'.salesData = client.cachedData]_vars

(* ========================= listing: properties ======================== *)

\* how many of the pages 1..pages, answered with the orderings choice[1],
\* choice[2], ... of the store, hold order k
TimesListed(k, q, pages, choice) ==
    Cardinality({<<p, i>> \in (1..pages) \X (1..Len(orders)) :
        LET data == OrdersPage(orders, [q EXCEPT !.page = ToNumeral(p)], choice[p]).data
        IN  i <= Len(data) /\ data[i].id = k})

(* C24: a 200 answer of GET /orders holds, for limit in 1..100 and page at
   least 1, the orders at the positions (page-1)*limit to page*limit-1 of the
   matching orders sorted newest first; count and pagination.total are the
   number of matching orders and pagination.pages is ceil(total/limit); and
   with no write in between, the pages 1..pages together hold every matching
   order exactly once. *)
C24_Pagination ==
    /\ (resp.op = "getOrders" /\ resp.status = 200) =>
          LET q == resp.query
              matching == MatchingOrders(orders, q.status)
              total == Cardinality(matching)
              limit == resp.body.pagination.limit
              page == resp.body.pagination.page
              pages == resp.body.pagination.pages
              data == resp.body.data
          IN  /\ limit = (IF q.limit = Undefined THEN 20 ELSE ParseInt(q.limit))
              /\ page = (IF q.page = Undefined THEN 1 ELSE ParseInt(q.page))
              /\ resp.body.count = total
              /\ resp.body.pagination.total = total
              /\ pages * limit >= total
              /\ (pages - 1) * limit < total \/ (pages = 0 /\ total = 0)
              /\ \E list \in NewestFirst(orders, matching) :
                    /\ Len(data) = Cardinality({i \in 1..total :
                                        (page - 1) * limit < i /\ i <= page * limit})
                    /\ \A i \in 1..Len(data) :
                          data[i] = orders[list[(page - 1) * limit + i]]
    /\ \A limit \in {"1", "2"}, status \in {Undefined, "pending"} :
          LET q == [impl |-> "routes", auth |-> "valid", limit |-> limit,
                    page |-> "1", status |-> status]
              matching == MatchingOrders(orders, status)
              pages == PageCount(Cardinality(matching), ParseInt(limit))
          IN  \A choice \in [1..pages -> NewestFirst(orders, matching)] :
                  \A k \in matching : TimesListed(k, q, pages, choice) = 1

====
